---- MODULE Spec2Model ----
(***************************************************************************)
(* Universal CLI wrapper: process supervision (ProcessManager.ts), session *)
(* orchestration (SessionManager.ts) and stream assembly (StreamParser.ts).*)
(*                                                                         *)
(* The supervising code is single threaded: a handler runs to completion,  *)
(* an `await` on an already settled promise resumes in the microtask       *)
(* queue (before any I/O event or timer), an `await` on real I/O resumes   *)
(* in a later macrotask.  `micro` is the microtask queue, `pend` the calls *)
(* suspended on I/O, `timers` the armed timers.                            *)
(***************************************************************************)
EXTENDS Integers, Sequences, FiniteSets, TLC

\* ---------------------------------------------------------------- bounds
\* Number of session ids randomUUID() hands out in one run.
NumIds == 2
\* Number of OS processes launched in one run of Spec and SpecPM, and of
\* SpecHistory.
MaxSpawns == 2
MaxHistSpawns == 1
\* Number of calls the callers make in one run of Spec, of SpecPM and of
\* SpecHistory.
MaxCalls == 4
MaxPmCalls == 3
MaxHistCalls == 2
\* Number of output notifications in one run of Spec and of SpecHistory.
MaxLateOutputs == 1
MaxOutputs == 3
\* SessionManager.maxSessions (50 in the source), scaled down.
maxSessions == 1
\* ProcessManager.maxProcesses (50 in the source), scaled down.
maxProcesses == 1
\* The history cap (10000 in the source) and what compaction keeps (5000),
\* scaled down.
historyLimit == 2
historyKeep == 1
\* Number of bytes delivered to the stream parser in one run.
MaxText == 4
\* The sweep's grace window for terminated sessions (5 min in the source) and
\* SessionManager.sessionTimeout (1 h in the source), in clock units, scaled down.
graceWindow == 1
sessionTimeout == 2
\* Clock units, calls, output notifications and launches in one run of SpecGC.
MaxTime == 3
MaxGcCalls == 2
MaxGcOutputs == 1
MaxGcSpawns == 1
\* StreamParser.maxLineLength (100000 in the source), scaled down.
maxLineLength == 2
\* StreamParser.maxBufferSize (1 MiB in the source), scaled down.
maxBufferSize == 2

StreamChannels == {"stdout", "stderr"}
StreamSessions == {1, 2}
StreamKeys == {<<s, c>> : s \in StreamSessions, c \in StreamChannels}
Ids == 1..NumIds
ExitCodes == {0, 1}
\* A nullable value is a set with at most one element; {} is null / undefined.
Null == {}

VARIABLES
  sessions,    \* SessionManager.sessions: id -> Session
  nextId,      \* the next id randomUUID() yields
  objs,        \* every ManagedProcess object ever built, with its ChildProcess
  processes,   \* ProcessManager.processes: id -> index into objs
  pend,        \* calls suspended at an await on I/O or on a timer
  micro,       \* microtask queue: continuations of awaits on settled promises
  timers,      \* armed one-shot timers
  last,        \* outcome of the call that settled last
  nOut,        \* output notifications delivered so far
  nCalls,      \* calls made by callers so far
  buffers,     \* StreamParser.buffers: key -> raw bytes not yet split into lines
  lineBuffers, \* StreamParser.lineBuffers: key -> pending partial line
  lineTimeouts,\* keys whose line timer is armed
  chunks,      \* per key, the chunks delivered so far
  reported,    \* per key, the completed lines returned to the caller
  forced,      \* per key, the lines the line timer force-completed
  cut,         \* per key, whether an overlong pending line was cut
  sequenceCounter, \* StreamParser.sequenceCounter
  now,         \* Date.now(), in clock units
  lastSweep,   \* the time at which the sweep's interval timer fired last
  sessionCleanupInterval, \* whether the sweep's interval timer is armed
  envIn,       \* the environments a launch starts from
  envOut,      \* the environment handed to the OS process
  fmtIn,       \* what a FormatProcessor method was given
  fmtOut,      \* the method applied last and the string it returned
  records      \* outputHistory of a session whose chunks are followed byte by byte

systemVars == <<sessions, nextId, objs, processes, pend, micro, timers, last, nOut, nCalls>>
streamVars == <<buffers, lineBuffers, lineTimeouts, chunks, reported, forced, cut,
               sequenceCounter>>
clockVars == <<now, lastSweep, sessionCleanupInterval>>
pureVars == <<envIn, envOut, fmtIn, fmtOut, records>>
vars == <<systemVars, streamVars, clockVars, pureVars>>

\* ------------------------------------------------- ProcessManager: helpers
\* `code || undefined`: null and 0 both become undefined.
orUndefined(code) == IF code = Null \/ code = {0} THEN Null ELSE code

\* The ManagedProcess built by spawn, with the ChildProcess it wraps.
\*   os: "spawning" (the OS accepted the launch, 'spawn' not yet emitted),
\*       "failing" (the launch failed, 'error' not yet emitted), "failed",
\*       "alive", "dead" ('exit' emitted), "closed" / "failedClosed" ('close'
\*       emitted after 'exit' / after the failed launch)
\*   sig: the strongest terminating signal delivered so far (SIGINT, which
\*        the child may handle and survive, SIGTERM, SIGKILL)
\*   wfs: waitForSpawn's promise: "pending" or "settled"
\*   returned: spawn has resolved with this ManagedProcess
newManagedProcess(processId, pidOk) ==
  [id |-> processId, status |-> "starting", exitCode |-> Null, signal |-> Null,
   pid |-> pidOk, os |-> IF pidOk THEN "spawning" ELSE "failing",
   stopped |-> FALSE, sig |-> "none", wfs |-> "pending", returned |-> FALSE]

capReachedOff(n) == n > maxProcesses
capReached(n) == n >= maxProcesses

\* childProcess.kill(signal): delivered only while the child has not exited.
deliver(o, signal) ==
  IF o.os \in {"spawning", "alive"}
  THEN CASE signal = "SIGKILL" -> [o EXCEPT !.sig = "SIGKILL"]
         [] signal = "SIGTERM" -> [o EXCEPT !.sig = IF @ = "SIGKILL" THEN @ ELSE "SIGTERM"]
         [] signal = "SIGINT" -> [o EXCEPT !.sig = IF @ = "none" THEN "SIGINT" ELSE @]
         [] signal = "SIGSTOP" -> [o EXCEPT !.stopped = TRUE]
         [] signal = "SIGCONT" -> [o EXCEPT !.stopped = FALSE]
  ELSE o

Tracked == DOMAIN processes
obj(id) == objs[processes[id]]

mapDelete(m, k) == [x \in DOMAIN m \ {k} |-> m[x]]
mapSet(m, k, v) == [x \in DOMAIN m \cup {k} |-> IF x = k THEN v ELSE m[x]]

\* ------------------------------------------------- SessionManager: helpers
\*   since: when the status last changed its value (kept for the properties;
\*   the program keeps only lastActivity)
\*   lastMsg: the latest message handed to sendToRemoteClient and the clients
\*   it was handed to; n alternates, so that two equal messages in a row differ
NoMsg == [n |-> 0, type |-> "none", to |-> {}]

newSession ==
  [status |-> "idle", exitCode |-> Null, outputHistory |-> <<>>,
   inputHistory |-> <<>>, remoteConnections |-> {}, lastMsg |-> NoMsg,
   lastActivity |-> now, since |-> now]

\* broadcastToRemote(sessionId, message, excludeClientId): sendToRemoteClient
\* for every connection of the session but the excluded ones.
broadcastToRemote(ss, sessionId, type, exclude) ==
  IF sessionId \in DOMAIN ss /\ ss[sessionId].remoteConnections \ exclude # {}
  THEN [ss EXCEPT ![sessionId].lastMsg =
          [n |-> 1 - @.n, type |-> type, to |-> ss[sessionId].remoteConnections \ exclude]]
  ELSE ss

sessionCapReached(n) == n >= maxSessions

updateSessionStatus(ss, sessionId, status) ==
  IF sessionId \in DOMAIN ss
  THEN [ss EXCEPT ![sessionId].status = status,
                  ![sessionId].lastActivity = now,
                  ![sessionId].since = IF ss[sessionId].status = status THEN @ ELSE now]
  ELSE ss

handleProcessExit(ss, sessionId, code) ==
  IF sessionId \in DOMAIN ss
  THEN broadcastToRemote(
         updateSessionStatus([ss EXCEPT ![sessionId].exitCode = orUndefined(code)],
                             sessionId, "terminated"),
         sessionId, "status", {})
  ELSE ss

handleProcessError(ss, sessionId) ==
  broadcastToRemote(updateSessionStatus(ss, sessionId, "error"), sessionId, "error", {})

\* outputHistory.slice(-historyKeep) once the length exceeds historyLimit.
compactKeepsOldest(h) ==
  IF Len(h) > historyLimit THEN SubSeq(h, 1, historyKeep) ELSE h
compact(h) ==
  IF Len(h) > historyLimit THEN SubSeq(h, Len(h) - historyKeep + 1, Len(h)) ELSE h

handleProcessOutput(ss, sessionId, record) ==
  IF sessionId \in DOMAIN ss
  THEN broadcastToRemote(
         [ss EXCEPT ![sessionId].lastActivity = now,
                    ![sessionId].outputHistory = compact(Append(@, record))],
         sessionId, "output", {})
  ELSE ss

cleanupSession(ss, sessionId) ==
  IF sessionId \in DOMAIN ss THEN mapDelete(ss, sessionId) ELSE ss

\* A caller makes a call / a step that is no caller's call.
Called(max) ==
  nCalls < max /\ nCalls' = nCalls + 1 /\ UNCHANGED <<streamVars, clockVars, pureVars>>
NoCall == UNCHANGED <<nCalls, streamVars, clockVars, pureVars>>

Result(op, id, ok) == [op |-> op, id |-> id, ok |-> ok]

\* ---------------------------------------------------------------- Init
\* The managers and the parser after construction.
Constructed ==
  /\ sessions = <<>>
  /\ nextId = 1
  /\ objs = <<>>
  /\ processes = <<>>
  /\ pend = {}
  /\ micro = <<>>
  /\ timers = {}
  /\ last = Result("none", 0, TRUE)
  /\ nOut = 0
  /\ nCalls = 0
  /\ buffers = <<>>
  /\ lineBuffers = <<>>
  /\ lineTimeouts = {}
  /\ chunks = [k \in StreamKeys |-> <<>>]
  /\ reported = [k \in StreamKeys |-> <<>>]
  /\ forced = [k \in StreamKeys |-> <<>>]
  /\ cut = [k \in StreamKeys |-> FALSE]
  /\ sequenceCounter = 0
  /\ now = 0
  /\ lastSweep = 0
  /\ sessionCleanupInterval = TRUE

NoEnv == [process |-> <<>>, tool |-> <<>>, options |-> <<>>]
NotLaunched == [via |-> "none", env |-> <<>>]
NotApplied == [op |-> "none", v |-> <<>>]

Init ==
  /\ Constructed
  /\ envIn = NoEnv
  /\ envOut = NotLaunched
  /\ fmtIn = <<>>
  /\ fmtOut = NotApplied
  /\ records = <<>>

\* ----------------------------------------------- ProcessManager: operations
\* spawn(processId, config), up to its await of waitForSpawn.  Yields the new
\* objs and processes and whether the call got that far (ok); when it throws
\* nothing is launched and both are unchanged.
spawnSync(processId, pidOk) ==
  IF processId \in Tracked \/ capReached(Cardinality(Tracked))
  THEN [ok |-> FALSE, objs |-> objs, processes |-> processes]
  ELSE [ok |-> TRUE,
        objs |-> Append(objs, newManagedProcess(processId, pidOk)),
        processes |-> mapSet(processes, processId, Len(objs) + 1)]

\* kill(processId, signal), up to its first await or its return.
\*   res: "notfound" (throws), "noop" (already terminated), "wait" (SIGTERM
\*   delivered, suspended in waitForTermination), "done" (direct signal).
killSync(processId, signal) ==
  IF processId \notin Tracked THEN [res |-> "notfound", objs |-> objs]
  ELSE LET h == processes[processId]
           o == objs[h]
       IN IF o.status = "terminated" THEN [res |-> "noop", objs |-> objs]
          ELSE IF signal = "SIGTERM" /\ o.pid
          THEN [res |-> "wait", objs |-> [objs EXCEPT ![h] = deliver(o, "SIGTERM")]]
          ELSE [res |-> "done",
                objs |-> [objs EXCEPT ![h] = [deliver(o, signal) EXCEPT !.status = "terminated"]]]

\* kill resumed after waitForTermination: force kill unless terminated.
killAfterWait(o) ==
  [(IF o.status # "terminated" THEN deliver(o, "SIGKILL") ELSE o) EXCEPT !.status = "terminated"]

\* pause(processId): SIGSTOP, only from running.
pauseSync(processId) ==
  IF processId \in Tracked /\ obj(processId).status = "running"
  THEN [ok |-> TRUE,
        objs |-> [objs EXCEPT ![processes[processId]] =
                    [deliver(@, "SIGSTOP") EXCEPT !.status = "paused"]]]
  ELSE [ok |-> FALSE, objs |-> objs]

\* resume(processId): SIGCONT, only from paused.
resumeSync(processId) ==
  IF processId \in Tracked /\ obj(processId).status = "paused"
  THEN [ok |-> TRUE,
        objs |-> [objs EXCEPT ![processes[processId]] =
                    [deliver(@, "SIGCONT") EXCEPT !.status = "running"]]]
  ELSE [ok |-> FALSE, objs |-> objs]

\* ------------------------------------------ ChildProcess events (macrotasks)
\* 'spawn': waitForSpawn resolves, spawn marks the process running and returns;
\* startSession then records the pid and returns.
SpawnEvent(h) ==
  /\ micro = <<>>
  /\ objs[h].os = "spawning"
  /\ IF objs[h].wfs = "pending"
     THEN /\ objs' = [objs EXCEPT ![h].os = "alive", ![h].wfs = "settled",
                                  ![h].status = "running", ![h].returned = TRUE]
          /\ last' = Result("spawn", objs[h].id, TRUE)
          /\ sessions' = IF objs[h].id \in DOMAIN sessions
                         THEN [sessions EXCEPT ![objs[h].id].lastActivity = now]
                         ELSE sessions
     ELSE /\ objs' = [objs EXCEPT ![h].os = "alive"]
          /\ UNCHANGED <<last, sessions>>
  /\ UNCHANGED <<nextId, processes, pend, micro, timers, nOut>>

\* A catch block that leaves the map entry in place.
spawnFailedKeepsEntry(h) ==
  /\ processes' = processes
  /\ last' = Result("waitForSpawn", objs[h].id, FALSE)

\* spawn's catch block: status error, processes.delete(processId); then
\* startSession's catch block: the session goes to error.
spawnFailed(h) ==
  /\ processes' = mapDelete(processes, objs[h].id)
  /\ last' = Result("waitForSpawn", objs[h].id, FALSE)

\* 'error': the handler of setupProcessHandlers runs first (status error, the
\* notification reaches handleProcessError), then waitForSpawn's handler rejects.
ErrorEvent(h) ==
  /\ micro = <<>>
  /\ objs[h].os \in {"failing", "alive"}
  /\ objs' = [objs EXCEPT ![h].os = IF @ = "failing" THEN "failed" ELSE @,
                          ![h].status = "error", ![h].wfs = "settled"]
  /\ sessions' = handleProcessError(sessions, objs[h].id)
  /\ IF objs[h].wfs = "pending" THEN spawnFailed(h) ELSE UNCHANGED <<processes, last>>
  /\ UNCHANGED <<nextId, pend, micro, timers, nOut>>

\* waitForSpawn's 5 s timer fires before 'spawn' or 'error'.
SpawnTimeout(h) ==
  /\ micro = <<>>
  /\ objs[h].os = "spawning" /\ objs[h].wfs = "pending"
  /\ objs' = [objs EXCEPT ![h].status = "error", ![h].wfs = "settled"]
  /\ sessions' = updateSessionStatus(sessions, objs[h].id, "error")
  /\ spawnFailed(h)
  /\ UNCHANGED <<nextId, pend, micro, timers, nOut>>

\* How a live child can end: by itself (unless stopped), or by a delivered signal.
ExitWays(o) ==
  (IF o.stopped THEN {} ELSE {[code |-> {c}, signal |-> Null] : c \in ExitCodes})
  \cup (IF o.sig = "SIGKILL" THEN {[code |-> Null, signal |-> {"SIGKILL"}]} ELSE {})
  \cup (IF o.sig \in {"SIGTERM", "SIGINT"} /\ ~o.stopped
        THEN {[code |-> Null, signal |-> {o.sig}]} ELSE {})

\* 'exit' (code, signal).
ExitWith(h, w) ==
  /\ micro = <<>>
  /\ objs[h].os = "alive"
  /\ w \in ExitWays(objs[h])
  /\ objs' = [objs EXCEPT ![h].os = "dead", ![h].status = "terminated",
                          ![h].exitCode = orUndefined(w.code),
                          ![h].signal = w.signal]
  /\ sessions' = handleProcessExit(sessions, objs[h].id, w.code)
  /\ UNCHANGED <<nextId, processes, pend, micro, timers, last, nOut>>

ExitEvent(h) == \E w \in ExitWays(objs[h]) : ExitWith(h, w)

\* 'close': arms the 1 s timer that deletes the map entry of this id.
CloseEvent(h) ==
  /\ micro = <<>>
  /\ objs[h].os \in {"dead", "failed"}
  /\ objs' = [objs EXCEPT ![h].os = IF @ = "dead" THEN "closed" ELSE "failedClosed"]
  /\ timers' = timers \cup {[k |-> "pmDelete", id |-> objs[h].id]}
  /\ UNCHANGED <<sessions, nextId, processes, pend, micro, last, nOut>>

\* stdout / stderr 'data'.
OutputEvent(h) ==
  /\ micro = <<>>
  /\ objs[h].os \in {"alive", "dead"}
  /\ nOut' = nOut + 1
  /\ sessions' = handleProcessOutput(sessions, objs[h].id, nOut + 1)
  /\ UNCHANGED <<nextId, objs, processes, pend, micro, timers, last>>

\* The timer armed by the close handler.
PmDeleteTimer(t) ==
  /\ micro = <<>>
  /\ t.k = "pmDelete"
  /\ timers' = timers \ {t}
  /\ processes' = mapDelete(processes, t.id)
  /\ UNCHANGED <<sessions, nextId, objs, pend, micro, last, nOut>>

\* ------------------------------------------- SessionManager: caller operations
Known == 1..(nextId - 1)

\* startSession without its check of the status.
startSessionBodyAnyStatus(sessionId, pidOk) ==
  IF sessionId \notin DOMAIN sessions
  THEN /\ last' = Result("startSession", sessionId, FALSE)
       /\ UNCHANGED <<sessions, objs, processes, micro>>
  ELSE LET r == spawnSync(sessionId, pidOk)
       IN /\ sessions' = updateSessionStatus(sessions, sessionId, "running")
          /\ objs' = r.objs
          /\ processes' = r.processes
          /\ micro' = IF r.ok THEN micro
                      ELSE Append(micro, [k |-> "startCatch", id |-> sessionId])
          /\ UNCHANGED last

\* startSession(sessionId) up to its await of spawn.  When spawn throws before
\* launching (duplicate id, cap), the catch block runs as a microtask.
startSessionBody(sessionId, pidOk) ==
  IF sessionId \notin DOMAIN sessions \/ sessions[sessionId].status # "idle"
  THEN /\ last' = Result("startSession", sessionId, FALSE)
       /\ UNCHANGED <<sessions, objs, processes, micro>>
  ELSE LET r == spawnSync(sessionId, pidOk)
       IN /\ sessions' = updateSessionStatus(sessions, sessionId, "running")
          /\ objs' = r.objs
          /\ processes' = r.processes
          /\ micro' = IF r.ok THEN micro
                      ELSE Append(micro, [k |-> "startCatch", id |-> sessionId])
          /\ UNCHANGED last

\* createSession(options): the cap check, randomUUID, then either the await of
\* detectTool (no tool given) or sessions.set and the await of registerSession.
CreateSession(toolGiven, autoStart) ==
  IF sessionCapReached(Cardinality(DOMAIN sessions))
  THEN /\ last' = Result("createSession", 0, FALSE)
       /\ UNCHANGED <<sessions, nextId, objs, processes, pend, micro, timers, nOut>>
  ELSE /\ nextId <= NumIds
       /\ nextId' = nextId + 1
       /\ sessions' = IF toolGiven THEN mapSet(sessions, nextId, newSession) ELSE sessions
       /\ pend' = pend \cup {[k |-> IF toolGiven THEN "register" ELSE "detect",
                              id |-> nextId, autoStart |-> autoStart]}
       /\ UNCHANGED <<objs, processes, micro, timers, last, nOut>>

\* detectTool has answered: sessions.set, then the await of registerSession.
CreateDetected(c) ==
  /\ micro = <<>>
  /\ c.k = "detect"
  /\ sessions' = mapSet(sessions, c.id, newSession)
  /\ pend' = (pend \ {c}) \cup {[c EXCEPT !.k = "register"]}
  /\ UNCHANGED <<nextId, objs, processes, micro, timers, last, nOut>>

\* registerSession has settled (its failure is swallowed): start unless
\* autoStart is false.
CreateRegistered(c) ==
  /\ micro = <<>>
  /\ c.k = "register"
  /\ pend' = pend \ {c}
  /\ IF c.autoStart
     THEN \E pidOk \in BOOLEAN : startSessionBody(c.id, pidOk)
     ELSE /\ last' = Result("createSession", c.id, TRUE)
          /\ UNCHANGED <<sessions, objs, processes, micro>>
  /\ UNCHANGED <<nextId, timers, nOut>>

StartSession(sessionId) ==
  /\ \E pidOk \in BOOLEAN : startSessionBody(sessionId, pidOk)
  /\ UNCHANGED <<nextId, pend, timers, nOut>>

\* pauseSession(sessionId) up to its await of pause (which never suspends).
PauseSession(sessionId) ==
  LET r == pauseSync(sessionId)
      ok == sessionId \in DOMAIN sessions /\ sessions[sessionId].status = "running" /\ r.ok
  IN /\ IF ok
        THEN /\ objs' = r.objs
             /\ micro' = Append(micro, [k |-> "pauseCont", id |-> sessionId])
             /\ UNCHANGED last
        ELSE /\ last' = Result("pauseSession", sessionId, FALSE)
             /\ UNCHANGED <<objs, micro>>
     /\ UNCHANGED <<sessions, nextId, processes, pend, timers, nOut>>

\* resumeSession(sessionId) up to its await of resume.
ResumeSession(sessionId) ==
  LET r == resumeSync(sessionId)
      ok == sessionId \in DOMAIN sessions /\ sessions[sessionId].status = "paused" /\ r.ok
  IN /\ IF ok
        THEN /\ objs' = r.objs
             /\ micro' = Append(micro, [k |-> "resumeCont", id |-> sessionId])
             /\ UNCHANGED last
        ELSE /\ last' = Result("resumeSession", sessionId, FALSE)
             /\ UNCHANGED <<objs, micro>>
     /\ UNCHANGED <<sessions, nextId, processes, pend, timers, nOut>>

\* terminateSession(sessionId, force) up to its await of kill.
TerminateSession(sessionId, force) ==
  /\ IF sessionId \notin DOMAIN sessions
     THEN /\ last' = Result("terminateSession", sessionId, FALSE)
          /\ UNCHANGED <<objs, micro, pend>>
     ELSE IF sessions[sessionId].status = "terminated"
     THEN /\ last' = Result("terminateSession", sessionId, TRUE)
          /\ UNCHANGED <<objs, micro, pend>>
     ELSE LET r == killSync(sessionId, IF force THEN "SIGKILL" ELSE "SIGTERM")
          IN /\ objs' = r.objs
             /\ last' = IF r.res = "notfound"
                        THEN Result("terminateSession", sessionId, FALSE) ELSE last
             /\ micro' = IF r.res \in {"noop", "done"}
                         THEN Append(micro, [k |-> "termCont", id |-> sessionId])
                         ELSE micro
             /\ pend' = IF r.res = "wait"
                        THEN pend \cup {[k |-> "killWait", id |-> sessionId,
                                         h |-> processes[sessionId], owner |-> "session"]}
                        ELSE pend
  /\ UNCHANGED <<sessions, nextId, processes, timers, nOut>>

\* The continuation at the head of the microtask queue.
MicroStep ==
  /\ micro # <<>>
  /\ Head(micro).k # "killAll"
  /\ micro' = Tail(micro)
  /\ LET m == Head(micro)
     IN CASE m.k = "startCatch" ->
               /\ sessions' = updateSessionStatus(sessions, m.id, "error")
               /\ last' = Result("startSession", m.id, FALSE)
               /\ UNCHANGED timers
          [] m.k = "pauseCont" ->
               /\ sessions' = updateSessionStatus(sessions, m.id, "paused")
               /\ last' = Result("pauseSession", m.id, TRUE)
               /\ UNCHANGED timers
          [] m.k = "resumeCont" ->
               /\ sessions' = updateSessionStatus(sessions, m.id, "running")
               /\ last' = Result("resumeSession", m.id, TRUE)
               /\ UNCHANGED timers
          [] m.k = "termCont" ->
               /\ sessions' = updateSessionStatus(sessions, m.id, "terminated")
               /\ last' = Result("terminateSession", m.id, TRUE)
               /\ timers' = timers \cup {[k |-> "cleanup", id |-> m.id]}
  /\ UNCHANGED <<nextId, objs, processes, pend, nOut>>

\* waitForTermination has resolved (its 100 ms poll saw the process gone or
\* terminated, or its timeout fired): kill finishes, then its caller.
KillWaitDone(c) ==
  /\ micro = <<>>
  /\ c.k = "killWait"
  /\ pend' = pend \ {c}
  /\ objs' = [objs EXCEPT ![c.h] = killAfterWait(@)]
  /\ IF c.owner = "session"
     THEN /\ sessions' = updateSessionStatus(sessions, c.id, "terminated")
          /\ timers' = timers \cup {[k |-> "cleanup", id |-> c.id]}
          /\ last' = Result("terminateSession", c.id, TRUE)
     ELSE /\ last' = IF c.owner = "direct" THEN Result("kill", c.id, TRUE)
                     ELSE IF \E d \in pend \ {c} : d.k = "killWait" /\ d.owner = "shutdown"
                     THEN last
                     ELSE Result("shutdown", 0, TRUE)
          /\ UNCHANGED <<sessions, timers>>
  /\ UNCHANGED <<nextId, processes, micro, nOut>>

\* The 5 s timer of terminateSession: cleanupSession.
CleanupTimer(t) ==
  /\ micro = <<>>
  /\ t.k = "cleanup"
  /\ timers' = timers \ {t}
  /\ sessions' = cleanupSession(sessions, t.id)
  /\ UNCHANGED <<nextId, objs, processes, pend, micro, last, nOut>>

\* ------------------------------------------------ SessionManager: sendInput
Inputs == {"x", "y"}
InputClients == {"c1", "c2"}

\* The outcome of the sendInput call that was the n-th call made.
SendResult(sessionId, ok, n) == [op |-> "sendInput", id |-> sessionId, ok |-> ok, n |-> n]

\* ProcessManager.send up to stdin.write: the process must be tracked and running.
sendSync(processId) == processId \in Tracked /\ obj(processId).status = "running"

\* sendInput after its await of send, were the input recorded whatever the
\* write's outcome.
afterSendAlways(ss, sessionId, input, clientId, ok) ==
  IF sessionId \in DOMAIN ss
  THEN broadcastToRemote([ss EXCEPT ![sessionId].inputHistory = Append(@, input),
                                    ![sessionId].lastActivity = now],
                         sessionId, "input", clientId)
  ELSE ss

\* sendInput after its await of send: when the write succeeded, push on the
\* session object's inputHistory, lastActivity, then the echo to every
\* connection but the sender's; when it failed, the catch block rethrows.
afterSend(ss, sessionId, input, clientId, ok) ==
  IF ok /\ sessionId \in DOMAIN ss
  THEN broadcastToRemote([ss EXCEPT ![sessionId].inputHistory = Append(@, input),
                                    ![sessionId].lastActivity = now],
                         sessionId, "input", clientId)
  ELSE ss

\* sendInput(sessionId, input, clientId) up to the write on the child's stdin;
\* clientId is a set of at most one client (it is optional).
SendInput(sessionId, input, clientId) ==
  /\ IF sessionId \in DOMAIN sessions /\ sessions[sessionId].status = "running"
        /\ sendSync(sessionId)
     THEN /\ pend' = pend \cup {[k |-> "write", id |-> sessionId, h |-> processes[sessionId],
                                 input |-> input, clientId |-> clientId, n |-> nCalls + 1]}
          /\ UNCHANGED last
     ELSE /\ last' = SendResult(sessionId, FALSE, nCalls + 1)
          /\ UNCHANGED pend
  /\ UNCHANGED <<sessions, nextId, objs, processes, micro, timers, nOut>>

\* The callback of stdin.write: writes on one stream complete in the order
\* they were issued; the OS decides whether the write succeeded.
WriteDone(c, ok) ==
  /\ micro = <<>>
  /\ c.k = "write"
  /\ \A d \in pend : d.k = "write" /\ d.h = c.h => d.n >= c.n
  /\ pend' = pend \ {c}
  /\ sessions' = afterSend(sessions, c.id, c.input, c.clientId, ok)
  /\ last' = SendResult(c.id, ok, c.n)
  /\ UNCHANGED <<nextId, objs, processes, micro, timers, nOut>>

\* ------------------------------------------ SessionManager: observers, sweep
\* addRemoteConnection(sessionId, clientId)
AddRemoteConnection(sessionId, clientId) ==
  /\ IF sessionId \in DOMAIN sessions
     THEN /\ sessions' = [sessions EXCEPT
                            ![sessionId].remoteConnections = @ \cup {clientId},
                            ![sessionId].lastActivity = now]
          /\ last' = Result("addRemoteConnection", sessionId, TRUE)
     ELSE /\ last' = Result("addRemoteConnection", sessionId, FALSE)
          /\ UNCHANGED sessions
  /\ UNCHANGED <<nextId, objs, processes, pend, micro, timers, nOut>>

\* removeRemoteConnection(sessionId, clientId)
RemoveRemoteConnection(sessionId, clientId) ==
  /\ IF sessionId \in DOMAIN sessions
     THEN /\ sessions' = [sessions EXCEPT ![sessionId].remoteConnections = @ \ {clientId}]
          /\ last' = Result("removeRemoteConnection", sessionId,
                            clientId \in sessions[sessionId].remoteConnections)
     ELSE /\ last' = Result("removeRemoteConnection", sessionId, FALSE)
          /\ UNCHANGED sessions
  /\ UNCHANGED <<nextId, objs, processes, pend, micro, timers, nOut>>

\* age = now - session.lastActivity
age(sessionId) == now - sessions[sessionId].lastActivity

\* The sessions the sweep purges, and those it tries to terminate.
oldTerminated ==
  {id \in DOMAIN sessions : sessions[id].status = "terminated" /\ age(id) > graceWindow}
oldIdle ==
  {id \in DOMAIN sessions : sessions[id].status = "idle" /\ age(id) > sessionTimeout}

RECURSIVE ascending(_)
ascending(S) ==
  IF S = {} THEN <<>>
  ELSE LET m == CHOOSE x \in S : \A y \in S : x <= y
       IN <<m>> \o ascending(S \ {m})

RECURSIVE termConts(_)
termConts(ids) ==
  IF ids = <<>> THEN <<>>
  ELSE (IF killSync(Head(ids), "SIGTERM").res \in {"noop", "done"}
        THEN <<[k |-> "termCont", id |-> Head(ids)]>> ELSE <<>>)
       \o termConts(Tail(ids))

\* cleanupOldSessions(), run by the 60 s interval: cleanupSession for every
\* old terminated session, terminateSession(sessionId) for every old idle one
\* (up to its await of kill; its rejection is logged).
cleanupOldSessions ==
  /\ micro = <<>>
  /\ sessionCleanupInterval
  /\ lastSweep' = now
  /\ sessions' = [id \in DOMAIN sessions \ oldTerminated |-> sessions[id]]
  /\ objs' = [h \in DOMAIN objs |->
               IF objs[h].id \in oldIdle \cap Tracked /\ processes[objs[h].id] = h
               THEN killSync(objs[h].id, "SIGTERM").objs[h]
               ELSE objs[h]]
  /\ micro' = micro \o termConts(ascending(oldIdle))
  /\ pend' = pend \cup {[k |-> "killWait", id |-> id, h |-> processes[id], owner |-> "session"] :
                          id \in {i \in oldIdle : killSync(i, "SIGTERM").res = "wait"}}
  /\ last' = IF \E id \in oldIdle : killSync(id, "SIGTERM").res = "notfound"
             THEN Result("terminateSession",
                         CHOOSE id \in oldIdle : killSync(id, "SIGTERM").res = "notfound", FALSE)
             ELSE last
  /\ UNCHANGED <<nextId, processes, timers, nOut>>

\* Time passes by one unit.  The unit is minutes long, so every timer of
\* seconds (cleanup, map entry deletion, waitForSpawn, waitForTermination)
\* has fired before.
Tick ==
  /\ micro = <<>>
  /\ \A t \in timers : t.k = "procTimeout"
  /\ \A c \in pend : c.k # "killWait"
  /\ \A h \in 1..Len(objs) : objs[h].wfs # "pending"
  /\ now' = now + 1
  /\ UNCHANGED <<systemVars, streamVars, lastSweep, sessionCleanupInterval, pureVars>>

\* ------------------------------------- ProcessManager called directly (no sessions)
KillSignals == {"SIGTERM", "SIGKILL", "SIGINT"}

\* spawn(processId, config) up to its await of waitForSpawn; with
\* config.timeout > 0, setupProcessHandlers arms the timeout timer.
spawnCall(processId, pidOk, withTimeout) ==
  /\ LET r == spawnSync(processId, pidOk)
     IN /\ objs' = r.objs
        /\ processes' = r.processes
        /\ last' = IF r.ok THEN last ELSE Result("spawn", processId, FALSE)
        /\ timers' = IF r.ok /\ withTimeout
                     THEN timers \cup {[k |-> "procTimeout", id |-> processId,
                                        h |-> Len(objs) + 1]}
                     ELSE timers
  /\ UNCHANGED <<sessions, nextId, pend, micro, nOut>>

PmSpawn(processId, pidOk) == spawnCall(processId, pidOk, FALSE)

PmSpawnTimed(processId, pidOk) == spawnCall(processId, pidOk, TRUE)

\* kill(processId, signal) called from outside the SessionManager.
killCall(processId, signal) ==
  LET r == killSync(processId, signal)
  IN /\ objs' = r.objs
     /\ last' = CASE r.res = "notfound" -> Result("kill", processId, FALSE)
                  [] r.res = "wait" -> last
                  [] OTHER -> Result("kill", processId, TRUE)
     /\ pend' = IF r.res = "wait"
                THEN pend \cup {[k |-> "killWait", id |-> processId,
                                 h |-> processes[processId], owner |-> "direct"]}
                ELSE pend

PmKill(processId, signal) ==
  /\ killCall(processId, signal)
  /\ UNCHANGED <<sessions, nextId, processes, micro, timers, nOut>>

\* The timer of config.timeout fires: kill(id, 'SIGTERM') when the status is
\* running, nothing otherwise.
ProcTimeout(t) ==
  /\ micro = <<>>
  /\ t.k = "procTimeout"
  /\ timers' = timers \ {t}
  /\ IF objs[t.h].status = "running"
     THEN killCall(t.id, "SIGTERM")
     ELSE UNCHANGED <<objs, last, pend>>
  /\ UNCHANGED <<sessions, nextId, processes, micro, nOut>>

PmPause(processId) ==
  /\ LET r == pauseSync(processId)
     IN /\ objs' = r.objs
        /\ last' = Result("pause", processId, r.ok)
  /\ UNCHANGED <<sessions, nextId, processes, pend, micro, timers, nOut>>

PmResume(processId) ==
  /\ LET r == resumeSync(processId)
     IN /\ objs' = r.objs
        /\ last' = Result("resume", processId, r.ok)
  /\ UNCHANGED <<sessions, nextId, processes, pend, micro, timers, nOut>>

\* ================================================= StreamParser.ts
\* Bytes a chunk is made of.  HI1 HI2 is the two-byte UTF-8 encoding of one
\* character (written "E9" here); either byte alone is malformed.
Bytes == {"a", "b", "SP", "LF", "CR", "BEL", "HI1", "HI2"}
\* EF BF BD is the three-byte UTF-8 encoding of U+FFFD; it reaches a buffer
\* only through Buffer.from(text, 'utf8').
ReplacementBytes == <<"EF", "BF", "BD">>
Whitespace == {"SP", "LF", "CR"}

\* data.toString('utf8'): a malformed or truncated sequence decodes to U+FFFD.
RECURSIVE toStringUtf8(_)
toStringUtf8(data) ==
  IF data = <<>> THEN <<>>
  ELSE IF Head(data) = "HI1" /\ Len(data) >= 2 /\ data[2] = "HI2"
       THEN <<"E9">> \o toStringUtf8(SubSeq(data, 3, Len(data)))
  ELSE IF Len(data) >= 3 /\ SubSeq(data, 1, 3) = ReplacementBytes
       THEN <<"FFFD">> \o toStringUtf8(SubSeq(data, 4, Len(data)))
  ELSE IF Head(data) \in {"HI1", "HI2", "EF", "BF", "BD"}
       THEN <<"FFFD">> \o toStringUtf8(Tail(data))
  ELSE <<Head(data)>> \o toStringUtf8(Tail(data))

\* String.prototype.split(sep) for a one-character separator: never empty.
RECURSIVE split(_, _)
split(text, sep) ==
  IF \A i \in 1..Len(text) : text[i] # sep THEN <<text>>
  ELSE LET i == CHOOSE j \in 1..Len(text) :
                  text[j] = sep /\ \A k \in 1..(j - 1) : text[k] # sep
       IN <<SubSeq(text, 1, i - 1)>> \o split(SubSeq(text, i + 1, Len(text)), sep)

\* String.prototype.trim().
RECURSIVE trimStart(_)
trimStart(t) == IF t # <<>> /\ Head(t) \in Whitespace THEN trimStart(Tail(t)) ELSE t
RECURSIVE trimEnd(_)
trimEnd(t) ==
  IF t # <<>> /\ t[Len(t)] \in Whitespace THEN trimEnd(SubSeq(t, 1, Len(t) - 1)) ELSE t
trim(t) == trimEnd(trimStart(t))

\* replace(/\x07/g, '')
RECURSIVE removeBell(_)
removeBell(t) ==
  IF t = <<>> THEN <<>>
  ELSE (IF Head(t) = "BEL" THEN <<>> ELSE <<Head(t)>>) \o removeBell(Tail(t))

\* replace(/\s+/g, ' ')
RECURSIVE collapseSpaces(_)
collapseSpaces(t) ==
  IF t = <<>> THEN <<>>
  ELSE IF Head(t) \in Whitespace
       THEN <<"SP">> \o collapseSpaces(trimStart(t))
       ELSE <<Head(t)>> \o collapseSpaces(Tail(t))

\* replace(/\r+$/, '')
RECURSIVE stripTrailingCR(_)
stripTrailingCR(t) ==
  IF t # <<>> /\ t[Len(t)] = "CR" THEN stripTrailingCR(SubSeq(t, 1, Len(t) - 1)) ELSE t

normalizeCommonPatterns(line) == stripTrailingCR(collapseSpaces(removeBell(line)))

processSingleLine(line) == normalizeCommonPatterns(trim(line))

\* handleCarriageReturn(existingLine, newText): the loop over parts[i..].
RECURSIVE crLoop(_, _, _, _)
crLoop(result, parts, i, endsWithCR) ==
  IF i > Len(parts) THEN result
  ELSE IF i = Len(parts) /\ ~endsWithCR
       THEN crLoop(parts[i], parts, i + 1, endsWithCR)
  ELSE IF parts[i] # <<>>
       THEN crLoop(result \o <<"LF">> \o parts[i], parts, i + 1, endsWithCR)
  ELSE crLoop(result, parts, i + 1, endsWithCR)

handleCarriageReturn(existingLine, newText) ==
  LET parts == split(newText, "CR")
  IN IF Len(parts) = 1 THEN existingLine \o newText
     ELSE crLoop(existingLine \o parts[1], parts, 2, newText[Len(newText)] = "CR")

\* text.includes('\r')
hasCarriageReturn(text) == \E i \in 1..Len(text) : text[i] = "CR"

\* "Normal text append": existingLine + text.
appendDropsPending(existingLine, text) == text
append(existingLine, text) == existingLine \o text

\* The lines [from..to] of `lines` that are not empty, each through processSingleLine.
RECURSIVE completeOf(_, _, _)
completeOf(lines, from, to) ==
  IF from > to THEN <<>>
  ELSE (IF lines[from] # <<>> THEN <<processSingleLine(lines[from])>> ELSE <<>>)
       \o completeOf(lines, from + 1, to)

\* lastLine.length > this.maxLineLength
overLimitNever(lastLine) == FALSE
overLimit(lastLine) == Len(lastLine) > maxLineLength

\* processRealTimeStream(sessionId, source, data) as a function of the pending
\* content: the completed lines it returns, the pending content it stores,
\* whether it arms the line timer, and whether it cut an overlong line.
processRealTimeStream(existingLine, data) ==
  LET text == toStringUtf8(data)
      combinedText == IF hasCarriageReturn(text)
                      THEN handleCarriageReturn(existingLine, text)
                      ELSE append(existingLine, text)
      lines == split(combinedText, "LF")
      lastLine == lines[Len(lines)]
      completeLines == completeOf(lines, 1, Len(lines) - 1)
      tooLong == overLimit(lastLine)
  IN [completeLines |-> IF tooLong
                        THEN Append(completeLines, processSingleLine(lastLine))
                        ELSE completeLines,
      lineBuffer |-> IF tooLong THEN <<>> ELSE lastLine,
      timer |-> lastLine # <<>> /\ ~tooLong,
      tooLong |-> tooLong]

pending(key) == IF key \in DOMAIN lineBuffers THEN lineBuffers[key] ELSE <<>>

RECURSIVE concat(_)
concat(seqs) == IF seqs = <<>> THEN <<>> ELSE Head(seqs) \o concat(Tail(seqs))

\* Bytes delivered so far, over all channels.
RECURSIVE sumLen(_)
sumLen(keys) ==
  IF keys = {} THEN 0
  ELSE LET k == CHOOSE x \in keys : TRUE
       IN Len(concat(chunks[k])) + sumLen(keys \ {k})
Delivered == sumLen(StreamKeys)

Data(maxLen) == UNION {[1..n -> Bytes] : n \in 1..maxLen}

\* A chunk arrives on a channel and goes through processRealTimeStream.
ProcessRealTimeStream(key, data) ==
  LET r == processRealTimeStream(pending(key), data)
  IN /\ lineBuffers' = mapSet(lineBuffers, key, r.lineBuffer)
     /\ lineTimeouts' = IF r.timer THEN lineTimeouts \cup {key} ELSE lineTimeouts \ {key}
     /\ chunks' = [chunks EXCEPT ![key] = Append(@, data)]
     /\ reported' = [reported EXCEPT ![key] = @ \o r.completeLines]
     /\ cut' = [cut EXCEPT ![key] = @ \/ r.tooLong]
     /\ UNCHANGED <<forced, buffers, sequenceCounter>>

\* The line timer fires: forceCompletePartialLine.
LineTimeout(key) ==
  /\ key \in lineTimeouts
  /\ lineTimeouts' = lineTimeouts \ {key}
  /\ IF pending(key) # <<>>
     THEN /\ forced' = [forced EXCEPT ![key] = Append(@, processSingleLine(pending(key)))]
          /\ lineBuffers' = mapSet(lineBuffers, key, <<>>)
     ELSE UNCHANGED <<forced, lineBuffers>>
  /\ UNCHANGED <<chunks, reported, cut, buffers, sequenceCounter>>

\* Buffer.from(text, 'utf8').
RECURSIVE fromStringUtf8(_)
fromStringUtf8(text) ==
  IF text = <<>> THEN <<>>
  ELSE (IF Head(text) = "E9" THEN <<"HI1", "HI2">>
        ELSE IF Head(text) = "FFFD" THEN ReplacementBytes
        ELSE <<Head(text)>>)
       \o fromStringUtf8(Tail(text))

\* combined.subarray(-this.maxBufferSize) when combined is longer than that.
capped(combined) ==
  IF Len(combined) > maxBufferSize
  THEN SubSeq(combined, Len(combined) - maxBufferSize + 1, Len(combined))
  ELSE combined

\* extractCompleteLines(sessionKey) as a function of the stored buffer: the
\* lines it returns and the buffer it stores back.
extractCompleteLines(buffer) ==
  LET text == toStringUtf8(buffer)
      lines == split(text, "LF")
      lastLine == lines[Len(lines)]
  IN [lines |-> completeOf(lines, 1, Len(lines) - 1),
      buffer |-> fromStringUtf8(lastLine)]

rawBuffer(key) == IF key \in DOMAIN buffers THEN buffers[key] ELSE <<>>

\* A chunk arrives on a channel and goes through processChunk.
ProcessChunk(key, data) ==
  LET combined == rawBuffer(key) \o data
      r == extractCompleteLines(capped(combined))
  IN /\ buffers' = mapSet(buffers, key, r.buffer)
     /\ chunks' = [chunks EXCEPT ![key] = Append(@, data)]
     /\ reported' = [reported EXCEPT ![key] = @ \o r.lines]
     /\ UNCHANGED <<lineBuffers, lineTimeouts, forced, cut, sequenceCounter>>

\* `${sessionId}:stdout` and `${sessionId}:stderr`.
keysOfAny(sessionId) == StreamKeys
keysOf(sessionId) == {<<sessionId, c>> : c \in StreamChannels}

\* clearSession(sessionId): both keys leave buffers, lineBuffers and
\* lineTimeouts, whose timers are cleared.
ClearSession(sessionId) ==
  /\ buffers' = [k \in DOMAIN buffers \ keysOf(sessionId) |-> buffers[k]]
  /\ lineBuffers' = [k \in DOMAIN lineBuffers \ keysOf(sessionId) |-> lineBuffers[k]]
  /\ lineTimeouts' = lineTimeouts \ keysOf(sessionId)
  /\ UNCHANGED <<chunks, reported, forced, cut, sequenceCounter>>

\* flushPendingLines(sessionId): the non-empty pending content of stdout, then
\* of stderr, is returned as a line and replaced by ''; the timers stay.
FlushPendingLines(sessionId) ==
  LET flushed == {k \in keysOf(sessionId) : pending(k) # <<>>}
  IN /\ reported' = [k \in DOMAIN reported |->
                       IF k \in flushed
                       THEN Append(reported[k], processSingleLine(pending(k)))
                       ELSE reported[k]]
     /\ lineBuffers' = [k \in DOMAIN lineBuffers |->
                          IF k \in flushed THEN <<>> ELSE lineBuffers[k]]
     /\ UNCHANGED <<buffers, lineTimeouts, chunks, forced, cut, sequenceCounter>>

\* createStreamChunk(source, data): the chunk it returns carries the next
\* value of the parser's one counter.
CreateStreamChunk ==
  /\ sequenceCounter' = sequenceCounter + 1
  /\ UNCHANGED <<buffers, lineBuffers, lineTimeouts, chunks, reported, forced, cut>>

\* ------------------------------------------------------- specifications
Handles == 1..Len(objs)

\* What the event loop dispatches for the child processes.
ChildNext ==
  \/ NoCall /\ \E h \in Handles : SpawnEvent(h)
  \/ NoCall /\ \E h \in Handles : ErrorEvent(h)
  \/ NoCall /\ \E h \in Handles : SpawnTimeout(h)
  \/ NoCall /\ \E h \in Handles : ExitEvent(h)
  \/ NoCall /\ \E h \in Handles : CloseEvent(h)
  \/ NoCall /\ \E t \in timers : PmDeleteTimer(t)
  \/ NoCall /\ \E c \in pend : KillWaitDone(c)

\* The whole system, driven through the SessionManager: at most maxCalls
\* calls, maxOut output notifications and maxSpawns launches.
SystemNext(maxCalls, maxOut, maxSpawns) ==
  \/ Called(maxCalls) /\ \E toolGiven, autoStart \in BOOLEAN : CreateSession(toolGiven, autoStart)
  \/ Called(maxCalls) /\ (\E id \in Known : StartSession(id)) /\ Len(objs') <= maxSpawns
  \/ Called(maxCalls) /\ \E id \in Known : PauseSession(id)
  \/ Called(maxCalls) /\ \E id \in Known : ResumeSession(id)
  \/ Called(maxCalls) /\ \E id \in Known, force \in BOOLEAN : TerminateSession(id, force)
  \/ NoCall /\ \E c \in pend : CreateDetected(c)
  \/ NoCall /\ (\E c \in pend : CreateRegistered(c)) /\ Len(objs') <= maxSpawns
  \/ NoCall /\ MicroStep
  \/ NoCall /\ nOut < maxOut /\ \E h \in Handles : OutputEvent(h)
  \/ NoCall /\ \E t \in timers : CleanupTimer(t)
  \/ ChildNext

Next == SystemNext(MaxCalls, MaxLateOutputs, MaxSpawns)

Spec == Init /\ [][Next]_vars

\* The same system with few calls, few launches and many output notifications.
NextHistory == SystemNext(MaxHistCalls, MaxOutputs, MaxHistSpawns)

SpecHistory == Init /\ [][NextHistory]_vars

\* The same system with few calls, one launch and one output notification.
MaxStCalls == 2
MaxStOutputs == 1
MaxStSpawns == 1

NextStart == SystemNext(MaxStCalls, MaxStOutputs, MaxStSpawns)

SpecStart == Init /\ [][NextStart]_vars

\* Callers that only create sessions: every start is the automatic one.
MaxCrCalls == 3
MaxCrSpawns == 1
NextCreate ==
  \/ Called(MaxCrCalls) /\ \E toolGiven, autoStart \in BOOLEAN : CreateSession(toolGiven, autoStart)
  \/ NoCall /\ \E c \in pend : CreateDetected(c)
  \/ NoCall /\ (\E c \in pend : CreateRegistered(c)) /\ Len(objs') <= MaxCrSpawns
  \/ NoCall /\ \E h \in Handles : SpawnEvent(h)
  \/ NoCall /\ \E h \in Handles : ErrorEvent(h)
  \/ NoCall /\ \E h \in Handles : SpawnTimeout(h)
  \/ NoCall /\ \E h \in Handles : ExitEvent(h)
  \/ NoCall /\ \E h \in Handles : CloseEvent(h)
  \/ NoCall /\ \E t \in timers : PmDeleteTimer(t)

SpecCreate == Init /\ [][NextCreate]_vars

\* The system with its observers, its clock and the garbage-collection sweep.
Clients == {"c1"}

NextGC ==
  \/ SystemNext(MaxGcCalls, MaxGcOutputs, MaxGcSpawns)
  \/ Called(MaxGcCalls) /\ \E id \in Known, c \in Clients : AddRemoteConnection(id, c)
  \/ Called(MaxGcCalls) /\ \E id \in Known, c \in Clients : RemoveRemoteConnection(id, c)
  \/ cleanupOldSessions /\ UNCHANGED <<nCalls, streamVars, now, sessionCleanupInterval, pureVars>>
  \/ now < MaxTime /\ Tick

SpecGC == Init /\ [][NextGC]_vars

\* Sessions that are created, started, paused and sent input, with one
\* observer.
MaxInCalls == 3
MaxInSpawns == 1

NextInput ==
  \/ Called(MaxInCalls) /\ \E toolGiven, autoStart \in BOOLEAN : CreateSession(toolGiven, autoStart)
  \/ Called(MaxInCalls) /\ (\E id \in Known : StartSession(id)) /\ Len(objs') <= MaxInSpawns
  \/ Called(MaxInCalls) /\ \E id \in Known : PauseSession(id)
  \/ Called(MaxInCalls) /\ \E id \in Known, c \in Clients : AddRemoteConnection(id, c)
  \/ Called(MaxInCalls) /\ \E id \in Known, input \in Inputs :
                             \E clientId \in {{}} \cup {{c} : c \in Clients} :
                               SendInput(id, input, clientId)
  \/ NoCall /\ \E c \in pend, ok \in BOOLEAN : WriteDone(c, ok)
  \/ NoCall /\ \E c \in pend : CreateDetected(c)
  \/ NoCall /\ (\E c \in pend : CreateRegistered(c)) /\ Len(objs') <= MaxInSpawns
  \/ NoCall /\ MicroStep
  \/ NoCall /\ \E h \in Handles : SpawnEvent(h)
  \/ NoCall /\ \E h \in Handles : ErrorEvent(h)
  \/ NoCall /\ \E h \in Handles : SpawnTimeout(h)
  \/ NoCall /\ \E h \in Handles : ExitEvent(h)
  \/ NoCall /\ \E h \in Handles : CloseEvent(h)
  \/ NoCall /\ \E t \in timers : PmDeleteTimer(t)

SpecInput == Init /\ [][NextInput]_vars

\* The whole system with two observers and with input sent to the sessions.
MaxObsCalls == 4
MaxObsOutputs == 1
MaxObsSpawns == 1

NextObservers ==
  \/ SystemNext(MaxObsCalls, MaxObsOutputs, MaxObsSpawns)
  \/ Called(MaxObsCalls) /\ \E id \in Known, c \in InputClients : AddRemoteConnection(id, c)
  \/ Called(MaxObsCalls) /\ \E id \in Known, c \in InputClients : RemoveRemoteConnection(id, c)
  \/ Called(MaxObsCalls) /\ \E id \in Known, input \in Inputs :
                              \E clientId \in {{}} \cup {{c} : c \in InputClients} :
                                SendInput(id, input, clientId)
  \/ NoCall /\ \E c \in pend, ok \in BOOLEAN : WriteDone(c, ok)

SpecObservers == Init /\ [][NextObservers]_vars

\* A ProcessManager used on its own.  Ids are interchangeable, so a caller
\* that needs an id it has not used before takes the smallest one.
UsedIds == {objs[h].id : h \in Handles}
PmIds == {id \in Ids : \A j \in 1..(id - 1) : j \in UsedIds}

\* The signals kill itself sends: the default and the forced one.
TermSignals == {"SIGTERM", "SIGKILL"}

\* Processes spawned without a timeout and killed with those signals.
NextPM ==
  \/ Called(MaxPmCalls) /\ (\E id \in PmIds, pidOk \in BOOLEAN : PmSpawn(id, pidOk))
                        /\ Len(objs') <= MaxSpawns
  \/ Called(MaxPmCalls) /\ \E id \in PmIds, signal \in TermSignals : PmKill(id, signal)
  \/ Called(MaxPmCalls) /\ \E id \in PmIds : PmPause(id)
  \/ Called(MaxPmCalls) /\ \E id \in PmIds : PmResume(id)
  \/ ChildNext

SpecPM == Init /\ [][NextPM]_vars

\* cleanup(): every entry whose process is terminated or in error is deleted.
PmCleanup ==
  /\ processes' = [id \in {i \in DOMAIN processes :
                             objs[processes[i]].status \notin {"terminated", "error"}}
                     |-> processes[id]]
  /\ last' = Result("cleanup", 0, TRUE)
  /\ UNCHANGED <<sessions, nextId, objs, pend, micro, timers, nOut>>

\* The ProcessManager with a caller that also reaps.
MaxRpCalls == 3
MaxRpSpawns == 2
NextReap ==
  \/ Called(MaxRpCalls) /\ (\E id \in PmIds, pidOk \in BOOLEAN : PmSpawn(id, pidOk))
                        /\ Len(objs') <= MaxRpSpawns
  \/ Called(MaxRpCalls) /\ \E id \in PmIds, signal \in TermSignals : PmKill(id, signal)
  \/ Called(MaxRpCalls) /\ PmCleanup
  \/ ChildNext

SpecReap == Init /\ [][NextReap]_vars

\* The same with config.timeout and with any signal a caller may pass.
NextPMTimed ==
  \/ Called(MaxPmCalls) /\ (\E id \in PmIds, pidOk \in BOOLEAN : PmSpawn(id, pidOk))
                        /\ Len(objs') <= MaxSpawns
  \/ Called(MaxPmCalls) /\ (\E id \in PmIds, pidOk \in BOOLEAN : PmSpawnTimed(id, pidOk))
                        /\ Len(objs') <= MaxSpawns
  \/ Called(MaxPmCalls) /\ \E id \in PmIds, signal \in KillSignals : PmKill(id, signal)
  \/ Called(MaxPmCalls) /\ \E id \in PmIds : PmPause(id)
  \/ Called(MaxPmCalls) /\ \E id \in PmIds : PmResume(id)
  \/ NoCall /\ \E t \in timers : ProcTimeout(t)
  \/ ChildNext

SpecPMTimed == Init /\ [][NextPMTimed]_vars

\* The stream parser fed chunk by chunk on the channels `keys`.
StreamNext(keys, maxText) ==
  \/ /\ \E key \in keys : \E data \in Data(maxText - Delivered) :
          ProcessRealTimeStream(key, data)
     /\ UNCHANGED <<systemVars, clockVars, pureVars>>
  \/ /\ \E key \in keys : LineTimeout(key)
     /\ UNCHANGED <<systemVars, clockVars, pureVars>>

\* One channel.
NextStream == StreamNext({<<1, "stdout">>}, MaxText)

SpecStream == Init /\ [][NextStream]_vars

\* One channel, with just enough bytes for a pending line to pass the limit.
MaxCutText == 3
NextCut == StreamNext({<<1, "stdout">>}, MaxCutText)

SpecCut == Init /\ [][NextCut]_vars

\* The raw byte buffer fed chunk by chunk on the channels `keys`.
ChunkNext(keys, maxText) ==
  /\ \E key \in keys : \E data \in Data(maxText - Delivered) : ProcessChunk(key, data)
  /\ UNCHANGED <<systemVars, clockVars, pureVars>>

\* Chunks wrapped by createStreamChunk in one run.
MaxSeq == 2
NextChunk ==
  \/ ChunkNext({<<1, "stdout">>}, MaxText)
  \/ /\ sequenceCounter < MaxSeq
     /\ CreateStreamChunk
     /\ UNCHANGED <<systemVars, clockVars, pureVars>>

SpecChunk == Init /\ [][NextChunk]_vars

\* Every operation of the parser, on the channels of two sessions.
MaxIsoText == 2
IsoBytes == {"a", "LF", "CR"}
IsoData(maxLen) == UNION {[1..n -> IsoBytes] : n \in 1..maxLen}
NextIsolation ==
  \/ /\ \E key \in StreamKeys : \E data \in IsoData(MaxIsoText - Delivered) :
          ProcessRealTimeStream(key, data)
     /\ UNCHANGED <<systemVars, clockVars, pureVars>>
  \/ /\ \E key \in StreamKeys : \E data \in IsoData(MaxIsoText - Delivered) :
          ProcessChunk(key, data)
     /\ UNCHANGED <<systemVars, clockVars, pureVars>>
  \/ /\ \E key \in StreamKeys : LineTimeout(key)
     /\ UNCHANGED <<systemVars, clockVars, pureVars>>
  \/ /\ \E sessionId \in StreamSessions : ClearSession(sessionId)
     /\ UNCHANGED <<systemVars, clockVars, pureVars>>
  \/ /\ \E sessionId \in StreamSessions : FlushPendingLines(sessionId)
     /\ UNCHANGED <<systemVars, clockVars, pureVars>>

SpecIsolation == Init /\ [][NextIsolation]_vars

\* --------------------------------------------- the environment of a launch
\* Environment variable names: the two locale keys createChildProcess sets,
\* one other key and one key a caller may introduce.
EnvKeys == {"LANG", "LC_ALL", "PATH", "CUSTOM"}

\* The environments that give the value v to some of the keys.
EnvMaps(v) == UNION {[D -> {v}] : D \in SUBSET EnvKeys}

\* Object spread {...a, ...b}: b's entries replace a's.
spread(a, b) ==
  [k \in DOMAIN a \cup DOMAIN b |-> IF k \in DOMAIN b THEN b[k] ELSE a[k]]

\* createSession: env: {...process.env, ...toolConfig?.env, ...options.env}.
sessionEnv(e) == spread(spread(e.process, e.tool), e.options)

utf8 == [k \in {"LANG", "LC_ALL"} |-> "en_US.UTF-8"]

\* createChildProcess: env: {...process.env, ...config.env, LANG, LC_ALL}.
childEnv(processEnv, configEnv) == spread(spread(processEnv, configEnv), utf8)

\* startSession: the session's env is the config.env of the spawn.
StartSessionEnv ==
  /\ envOut = NotLaunched
  /\ envOut' = [via |-> "session", env |-> childEnv(envIn.process, sessionEnv(envIn))]
  /\ UNCHANGED <<systemVars, streamVars, clockVars, envIn, fmtIn, fmtOut, records>>

\* ProcessManager.spawn called with the caller's overrides as config.env.
SpawnEnv ==
  /\ envOut = NotLaunched
  /\ envOut' = [via |-> "spawn", env |-> childEnv(envIn.process, envIn.options)]
  /\ UNCHANGED <<systemVars, streamVars, clockVars, envIn, fmtIn, fmtOut, records>>

InitEnv ==
  /\ Constructed
  /\ envIn \in [process : EnvMaps("inherited"), tool : EnvMaps("tool"),
                options : EnvMaps("caller")]
  /\ envOut = NotLaunched
  /\ fmtIn = <<>>
  /\ fmtOut = NotApplied
  /\ records = <<>>

NextEnv ==
  \/ StartSessionEnv
  \/ SpawnEnv

SpecEnv == InitEnv /\ [][NextEnv]_vars

\* ------------------------------------------------------- FormatProcessor
\* A string is a sequence of characters.  ESC is \x1b and LF is \n; a tag
\* name or attribute text that only ever travels as a whole is one element.
ESC == "ESC"
LF == "LF"
Digits == {"0", "1", "2", "3", "4", "5", "6", "7", "8", "9"}
Letters == {"m", "R", "e", "d"}

digit(c) ==
  CASE c = "0" -> 0 [] c = "1" -> 1 [] c = "2" -> 2 [] c = "3" -> 3
    [] c = "4" -> 4 [] c = "5" -> 5 [] c = "6" -> 6 [] c = "7" -> 7
    [] c = "8" -> 8 [] c = "9" -> 9

RECURSIVE Concat(_)
Concat(ss) == IF ss = <<>> THEN <<>> ELSE Head(ss) \o Concat(Tail(ss))

\* [0-9;]* from index j on: the index of the first character not in the class.
RECURSIVE skipParams(_, _)
skipParams(s, j) ==
  IF j <= Len(s) /\ s[j] \in Digits \cup {";"} THEN skipParams(s, j + 1) ELSE j

\* ansiRegex /\x1b\[[0-9;]*[a-zA-Z]/ tried at index i: the index of the last
\* character of the match, or 0 when there is no match at i.
ansiRegex(s, i) ==
  IF i + 1 <= Len(s) /\ s[i] = ESC /\ s[i + 1] = "["
  THEN LET j == skipParams(s, i + 2)
       IN IF j <= Len(s) /\ s[j] \in Letters THEN j ELSE 0
  ELSE 0

\* input.replace(ansiRegex, ''): one pass from the left over the input, the
\* search resuming after each match.
RECURSIVE stripFrom(_, _)
stripFrom(s, i) ==
  IF i > Len(s) THEN <<>>
  ELSE LET e == ansiRegex(s, i)
       IN IF e > 0 THEN stripFrom(s, e + 1) ELSE <<s[i]>> \o stripFrom(s, i + 1)

stripAnsi(input) == stripFrom(input, 1)

\* parseInt(p, 10) of a non-empty string of digits.
RECURSIVE parseInt(_)
parseInt(p) ==
  IF p = <<>> THEN 0 ELSE 10 * parseInt(SubSeq(p, 1, Len(p) - 1)) + digit(p[Len(p)])

\* match[1].split(';').filter(p => p.length > 0).map(parseInt): cur is the
\* piece being read.
RECURSIVE splitParams(_, _)
splitParams(s, cur) ==
  IF s = <<>> THEN (IF cur = <<>> THEN <<>> ELSE <<parseInt(cur)>>)
  ELSE IF Head(s) = ";"
       THEN (IF cur = <<>> THEN <<>> ELSE <<parseInt(cur)>>) \o splitParams(Tail(s), <<>>)
       ELSE splitParams(Tail(s), Append(cur, Head(s)))

\* extractParams of a matched sequence ESC [ params letter.
extractParams(code) == splitParams(SubSeq(code, 3, Len(code) - 1), <<>>)

\* colorCodes: the hex of the codes 30-37 and 40-47.
colorCodes(param) ==
  <<"#000000", "#cd0000", "#00cd00", "#cdcd00",
    "#0000ee", "#cd00cd", "#00cdcd", "#e5e5e5">>[(param % 10) + 1]

openTag(body) == <<"<", body, ">">>
closeTag(tag) == <<"<", "/", tag, ">">>

\* openTags.reverse().map(tag => `</${tag}>`).join('')
RECURSIVE closeAll(_)
closeAll(openTags) ==
  IF openTags = <<>> THEN <<>>
  ELSE closeTag(openTags[Len(openTags)]) \o closeAll(SubSeq(openTags, 1, Len(openTags) - 1))

noStyles == [color |-> "", backgroundColor |-> "", bold |-> FALSE,
             italic |-> FALSE, underline |-> FALSE]

\* One round of the loop over params in the replace callback; st holds the
\* result built so far, openTags and currentStyles.
applyParam(st, param) ==
  CASE param = 0 ->
         [result |-> st.result \o closeAll(st.openTags), openTags |-> <<>>,
          currentStyles |-> noStyles]
    [] param = 1 ->
         IF ~st.currentStyles.bold
         THEN [result |-> st.result \o openTag("strong"),
               openTags |-> Append(st.openTags, "strong"),
               currentStyles |-> [st.currentStyles EXCEPT !.bold = TRUE]]
         ELSE st
    [] param = 3 ->
         IF ~st.currentStyles.italic
         THEN [result |-> st.result \o openTag("em"),
               openTags |-> Append(st.openTags, "em"),
               currentStyles |-> [st.currentStyles EXCEPT !.italic = TRUE]]
         ELSE st
    [] param = 4 ->
         IF ~st.currentStyles.underline
         THEN [result |-> st.result \o openTag("u"),
               openTags |-> Append(st.openTags, "u"),
               currentStyles |-> [st.currentStyles EXCEPT !.underline = TRUE]]
         ELSE st
    [] param >= 30 /\ param <= 37 ->
         IF st.currentStyles.color # colorCodes(param)
         THEN [result |-> st.result \o <<"<", "span style=\"color: ", colorCodes(param), "\"", ">">>,
               openTags |-> Append(st.openTags, "span"),
               currentStyles |-> [st.currentStyles EXCEPT !.color = colorCodes(param)]]
         ELSE st
    [] param >= 40 /\ param <= 47 ->
         IF st.currentStyles.backgroundColor # colorCodes(param)
         THEN [result |-> st.result \o <<"<", "span style=\"background-color: ", colorCodes(param), "\"", ">">>,
               openTags |-> Append(st.openTags, "span"),
               currentStyles |-> [st.currentStyles EXCEPT !.backgroundColor = colorCodes(param)]]
         ELSE st
    [] OTHER -> st

RECURSIVE applyParams(_, _)
applyParams(st, params) ==
  IF params = <<>> THEN st ELSE applyParams(applyParam(st, Head(params)), Tail(params))

\* html.replace(ansiRegex, callback): every match is replaced by what the
\* callback returns for it, everything else is copied.
RECURSIVE replaceFrom(_, _, _)
replaceFrom(s, i, st) ==
  IF i > Len(s) THEN st
  ELSE LET e == ansiRegex(s, i)
       IN IF e > 0
          THEN replaceFrom(s, e + 1, applyParams(st, extractParams(SubSeq(s, i, e))))
          ELSE replaceFrom(s, i + 1, [st EXCEPT !.result = Append(@, s[i])])

\* The four replacements that end ansiToHtml, in their order: & first, so
\* the entities written for < and > are not escaped again.
escapeChar(c) ==
  CASE c = "&" -> <<"&amp;">>
    [] c = "<" -> <<"&lt;">>
    [] c = ">" -> <<"&gt;">>
    [] c = LF -> <<"<", "br", ">">>
    [] OTHER -> <<c>>

RECURSIVE escapeHtml(_)
escapeHtml(s) == IF s = <<>> THEN <<>> ELSE escapeChar(Head(s)) \o escapeHtml(Tail(s))

ansiToHtml(ansi) ==
  LET st == replaceFrom(ansi, 1, [result |-> <<>>, openTags |-> <<>>,
                                  currentStyles |-> noStyles])
  IN escapeHtml(st.result \o closeAll(st.openTags))

\* A Select Graphic Rendition sequence with one parameter.
sgr(param) == <<ESC, "[">> \o param \o <<"m">>

\* Inputs are built from at most MaxPieces pieces: whole sequences, the two
\* halves of one, and text.
MaxPieces == 4
Pieces == {sgr(<<"3", "1">>), sgr(<<"0">>), <<ESC, "[">>, <<"m">>, <<"R">>, <<"<">>, <<"1", ";">>}
FormatInputs == {Concat(ps) : ps \in UNION {[1..n -> Pieces] : n \in 0..MaxPieces}}

StripAnsi ==
  /\ fmtOut = NotApplied
  /\ fmtOut' = [op |-> "stripAnsi", v |-> stripAnsi(fmtIn)]
  /\ UNCHANGED <<systemVars, streamVars, clockVars, envIn, envOut, fmtIn, records>>

AnsiToHtml ==
  /\ fmtOut = NotApplied
  /\ fmtOut' = [op |-> "ansiToHtml", v |-> ansiToHtml(fmtIn)]
  /\ UNCHANGED <<systemVars, streamVars, clockVars, envIn, envOut, fmtIn, records>>

InitFormat ==
  /\ Constructed
  /\ envIn = NoEnv
  /\ envOut = NotLaunched
  /\ fmtIn \in FormatInputs
  /\ fmtOut = NotApplied
  /\ records = <<>>

NextFormat ==
  \/ StripAnsi
  \/ AnsiToHtml

SpecFormat == InitFormat /\ [][NextFormat]_vars

\* ------------------------------------------- raw format and output history
\* Here a chunk is a sequence of byte values.
ByteValues == {27, 255}
MaxRawLen == 3
RawChunks == UNION {[1..n -> ByteValues] : n \in 0..MaxRawLen}

Base64Alphabet ==
  <<"A", "B", "C", "D", "E", "F", "G", "H", "I", "J", "K", "L", "M", "N", "O", "P",
    "Q", "R", "S", "T", "U", "V", "W", "X", "Y", "Z", "a", "b", "c", "d", "e", "f",
    "g", "h", "i", "j", "k", "l", "m", "n", "o", "p", "q", "r", "s", "t", "u", "v",
    "w", "x", "y", "z", "0", "1", "2", "3", "4", "5", "6", "7", "8", "9", "+", "/">>

sextet(n) == Base64Alphabet[n + 1]
sextetOf(c) == (CHOOSE i \in 1..64 : Base64Alphabet[i] = c) - 1

\* An encoder that writes whole groups of three bytes only.
RECURSIVE toBase64WholeGroups(_)
toBase64WholeGroups(b) ==
  IF Len(b) < 3 THEN <<>>
  ELSE <<sextet(b[1] \div 4), sextet((b[1] % 4) * 16 + b[2] \div 16),
         sextet((b[2] % 16) * 4 + b[3] \div 64), sextet(b[3] % 64)>>
       \o toBase64WholeGroups(SubSeq(b, 4, Len(b)))

\* Buffer.prototype.toString('base64'): three bytes give four characters, a
\* last group of one or two bytes is padded with '='.
RECURSIVE toBase64(_)
toBase64(b) ==
  IF Len(b) = 0 THEN <<>>
  ELSE IF Len(b) = 1
       THEN <<sextet(b[1] \div 4), sextet((b[1] % 4) * 16), "=", "=">>
  ELSE IF Len(b) = 2
       THEN <<sextet(b[1] \div 4), sextet((b[1] % 4) * 16 + b[2] \div 16),
              sextet((b[2] % 16) * 4), "=">>
  ELSE <<sextet(b[1] \div 4), sextet((b[1] % 4) * 16 + b[2] \div 16),
         sextet((b[2] % 16) * 4 + b[3] \div 64), sextet(b[3] % 64)>>
       \o toBase64(SubSeq(b, 4, Len(b)))

\* What a base64 decoder returns (Buffer.from(s, 'base64')).
RECURSIVE fromBase64(_)
fromBase64(s) ==
  IF Len(s) < 4 THEN <<>>
  ELSE LET a == sextetOf(s[1])
           b == sextetOf(s[2])
       IN IF s[3] = "=" THEN <<a * 4 + b \div 16>>
          ELSE LET c == sextetOf(s[3])
               IN IF s[4] = "="
                  THEN <<a * 4 + b \div 16, (b % 16) * 16 + c \div 4>>
                  ELSE <<a * 4 + b \div 16, (b % 16) * 16 + c \div 4,
                         (c % 4) * 64 + sextetOf(s[4])>>
                       \o fromBase64(SubSeq(s, 5, Len(s)))

\* processOutput(data, source): the record keeps the Buffer it was given.
processOutput(data) == [raw |-> data, source |-> "stdout"]

\* serializeForTransmission(output, 'raw')
serializeRaw(output) == toBase64(output.raw)

\* history.slice(-limit) when a positive limit is given.
sliceLast(h, limit) ==
  IF limit > 0 /\ limit < Len(h) THEN SubSeq(h, Len(h) - limit + 1, Len(h)) ELSE h

\* serializeForTransmission(processOutput(data), 'raw') on a fresh record.
SerializeRaw(data) ==
  /\ fmtIn = <<>> /\ fmtOut = NotApplied
  /\ fmtIn' = <<data>>
  /\ fmtOut' = [op |-> "serializeForTransmission", v |-> <<serializeRaw(processOutput(data))>>]
  /\ UNCHANGED <<systemVars, streamVars, clockVars, envIn, envOut, records>>

\* handleProcessOutput for the session: the record joins its history and
\* nothing is returned; fmtIn keeps the latest chunks delivered, as many as
\* a history can hold.
HandleRawOutput(data) ==
  /\ fmtOut.op # "serializeForTransmission"
  /\ fmtIn' = sliceLast(Append(fmtIn, data), historyLimit)
  /\ records' = compact(Append(records, processOutput(data)))
  /\ fmtOut' = [op |-> "handleProcessOutput", v |-> <<>>]
  /\ UNCHANGED <<systemVars, streamVars, clockVars, envIn, envOut>>

\* getSessionHistory(sessionId, 'raw', limit)
GetSessionHistory(limit) ==
  /\ fmtOut.op # "serializeForTransmission"
  /\ fmtOut' = [op |-> "getSessionHistory",
                v |-> [i \in 1..Len(sliceLast(records, limit)) |->
                         serializeRaw(sliceLast(records, limit)[i])]]
  /\ UNCHANGED <<systemVars, streamVars, clockVars, envIn, envOut, fmtIn, records>>

NextRaw ==
  \/ \E data \in RawChunks : SerializeRaw(data)
  \/ \E data \in RawChunks : HandleRawOutput(data)
  \/ \E limit \in 0..historyLimit : GetSessionHistory(limit)

SpecRaw == Init /\ [][NextRaw]_vars

\* ------------------------------------------------ SessionManager: shutdown
RECURSIVE forcedConts(_)
forcedConts(ids) ==
  IF ids = <<>> THEN <<>>
  ELSE (IF killSync(Head(ids), "SIGKILL").res \in {"noop", "done"}
        THEN <<[k |-> "termCont", id |-> Head(ids)]>> ELSE <<>>)
       \o forcedConts(Tail(ids))

\* kill(id, signal), up to its await or return, for every id of `ids`.
killEach(ids, signal) ==
  [h \in DOMAIN objs |->
     IF objs[h].id \in ids \cap Tracked /\ processes[objs[h].id] = h
     THEN killSync(objs[h].id, signal).objs[h]
     ELSE objs[h]]

\* shutdown() up to its await of Promise.all: clearInterval, then
\* terminateSession(sessionId, true) for every session of the map, each up to
\* its await of kill; a rejection is logged.  `existed` remembers the
\* sessions of the map at the call.
Shutdown ==
  LET live == {id \in DOMAIN sessions : sessions[id].status # "terminated"}
  IN /\ sessionCleanupInterval' = FALSE
     /\ objs' = killEach(live, "SIGKILL")
     /\ micro' = micro \o forcedConts(ascending(live))
                       \o <<[k |-> "killAll", id |-> 0, existed |-> DOMAIN sessions]>>
     /\ UNCHANGED <<sessions, nextId, processes, pend, timers, last, nOut>>

\* shutdown() after Promise.all: killAll(), that is kill(id) for every entry
\* of the process map, each up to its await of waitForTermination; shutdown
\* resolves once every kill has settled.
ShutdownKillAll ==
  /\ micro # <<>>
  /\ Head(micro).k = "killAll"
  /\ LET waits == {id \in Tracked : killSync(id, "SIGTERM").res = "wait"}
     IN /\ objs' = killEach(Tracked, "SIGTERM")
        /\ pend' = pend \cup {[k |-> "killWait", id |-> id, h |-> processes[id],
                               owner |-> "shutdown", existed |-> Head(micro).existed] :
                                id \in waits}
        /\ last' = IF waits = {} THEN Result("shutdown", 0, TRUE) ELSE last
  /\ micro' = Tail(micro)
  /\ UNCHANGED <<sessions, nextId, processes, timers, nOut>>

\* The system with its clock and sweep, and one call of shutdown.
MaxShCalls == 3
MaxShOutputs == 1
MaxShSpawns == 1
MaxShTime == 1

NextShutdown ==
  \/ SystemNext(MaxShCalls, MaxShOutputs, MaxShSpawns)
  \/ /\ nCalls < MaxShCalls /\ nCalls' = nCalls + 1
     /\ sessionCleanupInterval
     /\ Shutdown
     /\ UNCHANGED <<streamVars, now, lastSweep, pureVars>>
  \/ NoCall /\ ShutdownKillAll
  \/ cleanupOldSessions /\ UNCHANGED <<nCalls, streamVars, now, sessionCleanupInterval, pureVars>>
  \/ now < MaxShTime /\ Tick

SpecShutdown == Init /\ [][NextShutdown]_vars

\* Time passes by one unit once the clock shows MaxTime.  Only differences of
\* times are ever read (age), and every period they are compared with is
\* shorter than MaxTime, so the clock is kept at MaxTime and every recorded
\* time is moved back by one unit instead, not below 0.
back(t) == IF t > 0 THEN t - 1 ELSE 0

TickOn ==
  /\ micro = <<>>
  /\ \A t \in timers : t.k = "procTimeout"
  /\ \A c \in pend : c.k # "killWait"
  /\ \A h \in 1..Len(objs) : objs[h].wfs # "pending"
  /\ now = MaxTime
  /\ sessions' = [id \in DOMAIN sessions |->
                    [sessions[id] EXCEPT !.lastActivity = back(@), !.since = back(@)]]
  /\ lastSweep' = back(lastSweep)
  /\ UNCHANGED <<nextId, objs, processes, pend, micro, timers, last, nOut, nCalls,
                 streamVars, now, sessionCleanupInterval, pureVars>>

TimePasses == (now < MaxTime /\ Tick) \/ TickOn

\* The system of SpecGC with a clock that never stops, under the scheduling
\* of the event loop: a queued continuation runs, a settled await resumes, an
\* armed timer fires, a pending event of a child is dispatched, the interval
\* timer of the sweep keeps firing and time passes.  Callers are not obliged
\* to call.
NextGCLive ==
  \/ NextGC
  \/ TickOn

Scheduling ==
  /\ WF_vars(NoCall /\ MicroStep)
  /\ WF_vars(NoCall /\ \E c \in pend : CreateDetected(c))
  /\ WF_vars(NoCall /\ (\E c \in pend : CreateRegistered(c)) /\ Len(objs') <= MaxGcSpawns)
  /\ WF_vars(NoCall /\ \E t \in timers : CleanupTimer(t))
  /\ WF_vars(NoCall /\ \E h \in Handles : SpawnEvent(h))
  /\ WF_vars(NoCall /\ \E h \in Handles : ErrorEvent(h) /\ objs[h].os = "failing")
  /\ WF_vars(NoCall /\ \E h \in Handles : ExitEvent(h))
  /\ WF_vars(NoCall /\ \E h \in Handles : CloseEvent(h))
  /\ WF_vars(NoCall /\ \E t \in timers : PmDeleteTimer(t))
  /\ WF_vars(NoCall /\ \E c \in pend : KillWaitDone(c))
  /\ WF_vars(cleanupOldSessions /\ UNCHANGED <<nCalls, streamVars, now, sessionCleanupInterval, pureVars>>)
  /\ WF_vars(TimePasses)

SpecGCLive == Init /\ [][NextGCLive]_vars /\ Scheduling

\* ================================================================ claims

\* ---- C1: every change of a session's status follows an edge of the session
\* state machine (idle->running, running->paused, paused->running,
\* running/paused->terminated, idle/running/paused->error); terminated and
\* error are never left.
AllowedEdges ==
  {<<"idle", "running">>, <<"running", "paused">>, <<"paused", "running">>,
   <<"running", "terminated">>, <<"paused", "terminated">>,
   <<"idle", "error">>, <<"running", "error">>, <<"paused", "error">>}

C1_StatusEdges ==
  [][\A id \in DOMAIN sessions \cap DOMAIN sessions' :
       sessions'[id].status # sessions[id].status
         => <<sessions[id].status, sessions'[id].status>> \in AllowedEdges]_vars

\* ---- C2: a running session has a tracked managed process that is running,
\* a paused session one that is paused.
C2_StatusConsistent ==
  \A id \in DOMAIN sessions :
    sessions[id].status \in {"running", "paused"}
      => id \in Tracked /\ obj(id).status = sessions[id].status

\* ---- C3: the session map never holds more than maxSessions sessions.
C3_SessionCap == Cardinality(DOMAIN sessions) <= maxSessions

\* ---- C4: spawn called while the process map holds maxProcesses entries
\* fails, launches nothing and leaves the map and every tracked process
\* unchanged; the map never holds more than maxProcesses entries.
C4_SpawnAtCap ==
  /\ [](Cardinality(Tracked) <= maxProcesses)
  /\ [][\A id \in Ids, pidOk \in BOOLEAN :
          (Cardinality(Tracked) >= maxProcesses /\ PmSpawn(id, pidOk))
            => /\ last' = Result("spawn", id, FALSE)
               /\ objs' = objs
               /\ processes' = processes]_vars

\* A spawn of an untracked id has just been refused with the map full.
C4_Witness ==
  /\ Cardinality(Tracked) = maxProcesses
  /\ \E id \in Ids \ Tracked : last = Result("spawn", id, FALSE)

\* ---- C5: a kill of a process that spawn returned and that has terminated
\* (its exit notification has arrived, after its own exit or after an earlier
\* kill) returns without error, delivers no signal and leaves the process map
\* unchanged.
Latest(id) == CHOOSE h \in Handles : objs[h].id = id /\ \A g \in Handles : objs[g].id = id => g <= h

HasTerminated(id) ==
  /\ id \in UsedIds
  /\ objs[Latest(id)].returned
  /\ objs[Latest(id)].os \in {"dead", "closed"}

C5_KillTerminatedIsNoop ==
  [][\A id \in Ids, signal \in KillSignals :
       (HasTerminated(id) /\ PmKill(id, signal))
         => /\ last' = Result("kill", id, TRUE)
            /\ objs' = objs
            /\ processes' = processes]_vars

C7_ExitCodeRecorded ==
  [][\A h \in Handles, c \in ExitCodes :
       (ExitWith(h, [code |-> {c}, signal |-> Null]) /\ objs[h].id \in DOMAIN sessions)
         => /\ sessions'[objs[h].id].status = "terminated"
            /\ sessions'[objs[h].id].exitCode = {c}
            /\ objs'[h].exitCode = {c}]_vars

\* ---- C8: for chunks of one channel whose concatenation holds no carriage
\* return, the completed lines reported over all calls followed by the final
\* pending content are the concatenated text split on newline.
fedText(key) == toStringUtf8(concat(chunks[key]))

RECURSIVE decodeEach(_)
decodeEach(cs) ==
  IF cs = <<>> THEN <<>> ELSE toStringUtf8(Head(cs)) \o decodeEach(Tail(cs))
seenText(key) == decodeEach(chunks[key])

RECURSIVE normalizedNonEmpty(_)
normalizedNonEmpty(segs) ==
  IF segs = <<>> THEN <<>>
  ELSE (IF Head(segs) = <<>> THEN <<>>
        ELSE <<stripTrailingCR(collapseSpaces(removeBell(trim(Head(segs)))))>>)
       \o normalizedNonEmpty(Tail(segs))

Undisturbed(key) == forced[key] = <<>> /\ ~cut[key]

C9_ProgressSegments ==
  \A key \in StreamKeys :
    (Len(chunks[key]) = 1 /\ Undisturbed(key))
      => LET text == toStringUtf8(chunks[key][1])
             parts == split(text, "CR")
         IN (/\ Len(parts) >= 2
             /\ \A i \in 1..Len(parts) : parts[i] # <<>>
             /\ \A i \in 1..Len(text) : text[i] # "LF")
              => /\ reported[key] = SubSeq(parts, 1, Len(parts) - 1)
                 /\ pending(key) = parts[Len(parts)]

\* ---- C10: a chunk in which every carriage return is immediately followed
\* by a newline is appended to the pending content and split on newline, so
\* the text before each CR LF is reported as a completed line.
allCRPaired(text) ==
  \A i \in 1..Len(text) : text[i] = "CR" => (i < Len(text) /\ text[i + 1] = "LF")

C10_PairedCRIsNoRewrite ==
  [][\A key \in StreamKeys :
       Len(chunks'[key]) = Len(chunks[key]) + 1
         => LET text == toStringUtf8(chunks'[key][Len(chunks'[key])])
                lines == split(pending(key) \o text, "LF")
                lastLine == lines[Len(lines)]
            IN (hasCarriageReturn(text) /\ allCRPaired(text) /\ Len(lastLine) <= maxLineLength)
                 => /\ reported'[key] =
                         reported[key] \o normalizedNonEmpty(SubSeq(lines, 1, Len(lines) - 1))
                    /\ lineBuffers'[key] = lastLine]_vars

\* ---- C11: every output notification for a tracked session is passed to
\* the stream parser, which updates the line state of a channel of that
\* session, and produces one record appended to the session's history.
C11_OutputReachesStreamParser ==
  [][\A h \in Handles :
       (/\ OutputEvent(h)
        /\ objs[h].id \in DOMAIN sessions
        /\ \E key \in StreamKeys : key[1] = objs[h].id)
         => /\ \E key \in StreamKeys :
                 /\ key[1] = objs[h].id
                 /\ Len(chunks'[key]) = Len(chunks[key]) + 1
            /\ LET new == sessions'[objs[h].id].outputHistory
               IN new # <<>> /\ new[Len(new)] = nOut + 1]_vars

\* ---- C12: terminateSession on an existing session that is not terminated
\* (idle, running, paused or error) is not rejected, and when it completes
\* the session is terminated.
InFlight(q, p, sessionId) ==
  \/ \E i \in 1..Len(q) : q[i] = [k |-> "termCont", id |-> sessionId]
  \/ \E c \in p : c.k = "killWait" /\ c.id = sessionId /\ c.owner = "session"

C12_TerminateSucceeds ==
  [][\A id \in Ids, force \in BOOLEAN :
       (/\ TerminateSession(id, force)
        /\ id \in DOMAIN sessions
        /\ sessions[id].status # "terminated")
         => InFlight(micro', pend', id)]_vars

\* ---- C13: when the sweep finds a session idle for longer than
\* sessionTimeout, its termination attempt is not rejected (so that the
\* session is terminated once the attempt completes, and purged later).
C13_IdleSweepTerminates ==
  [][\A id \in Ids :
       (cleanupOldSessions /\ nCalls' = nCalls /\ id \in oldIdle)
         => InFlight(micro', pend', id)]_vars

\* ---- C14: no session is left in the map by a sweep that ran when the
\* session had been terminated for longer than graceWindow, whatever happened
\* to it since it terminated.
C14_TerminatedPurged ==
  \A id \in DOMAIN sessions :
    sessions[id].status = "terminated"
      => lastSweep - sessions[id].since <= graceWindow

\* ---- C15: kill with the default signal on a launched process delivers
\* SIGTERM and waits; when the wait ends and no exit notification has arrived,
\* SIGKILL has been delivered to the process; kill with another signal
\* delivers it at once, without waiting.
C15_GracefulThenForce ==
  /\ [][\A id \in Ids :
          (/\ PmKill(id, "SIGTERM")
           /\ id \in Tracked /\ obj(id).status # "terminated" /\ obj(id).pid)
            => /\ \E c \in pend' : c.k = "killWait" /\ c.h = processes[id]
               /\ objs'[processes[id]] = deliver(obj(id), "SIGTERM")]_vars
  /\ [][\A c \in pend :
          (KillWaitDone(c) /\ objs[c.h].os \in {"spawning", "alive"})
            => objs'[c.h].sig = "SIGKILL"]_vars
  /\ [][\A id \in Ids, signal \in KillSignals \ {"SIGTERM"} :
          (PmKill(id, signal) /\ id \in Tracked /\ obj(id).status # "terminated")
            => /\ pend' = pend
               /\ objs'[processes[id]] =
                    [deliver(obj(id), signal) EXCEPT !.status = "terminated"]]_vars

\* ---- C16: when the timeout of a process that has not exited elapses, a
\* graceful kill is triggered, whether the process is running or paused.
C16_TimeoutKills ==
  [][\A t \in timers :
       (/\ ProcTimeout(t)
        /\ objs[t.h].os = "alive"
        /\ objs[t.h].status \in {"running", "paused"})
         => \E c \in pend' : c.k = "killWait" /\ c.h = t.h]_vars

\* ---- C17: once the status of a managed process is terminated or error, it
\* never changes again.
C17_FinalStatusAbsorbing ==
  [][\A h \in Handles :
       objs[h].status \in {"terminated", "error"}
         => objs'[h].status = objs[h].status]_vars

\* ---- C18: the environment handed to the spawned OS process maps every key
\* of the caller's overrides to the caller's value, locale keys included, and
\* passes every other key of the current process environment through with
\* its current value.
C18_CallerEnvWins ==
  envOut.via # "none" =>
    /\ \A k \in DOMAIN envIn.options :
         k \in DOMAIN envOut.env /\ envOut.env[k] = envIn.options[k]
    /\ \A k \in DOMAIN envIn.process \ DOMAIN envIn.options :
         k \in DOMAIN envOut.env /\ envOut.env[k] = envIn.process[k]

\* ---- C19: for text coloured by a foreground-colour sequence and followed
\* by a reset sequence, the html serialization is the text between a literal
\* <span style="color: ..."> and </span>, the closing tag standing before the
\* text that follows the reset.
PlainTexts == {Concat(ps) : ps \in UNION {[1..n -> {<<"R">>, <<"m">>}] : n \in 0..MaxPieces}}

C19_ColouredSpan ==
  \A t \in PlainTexts \ {<<>>}, r \in PlainTexts :
    fmtOut.op = "ansiToHtml" /\ fmtIn = sgr(<<"3", "1">>) \o t \o sgr(<<"0">>) \o r
      => fmtOut.v = <<"<", "span style=\"color: ", "#cd0000", "\"", ">">> \o t
                      \o <<"<", "/", "span", ">">> \o r

\* ---- C20: the text stripAnsi returns contains no CSI escape sequence
\* (ESC, '[', digits and semicolons, one letter), and stripping it again
\* changes nothing.
C20_StrippedHasNoCsi ==
  fmtOut.op = "stripAnsi" =>
    /\ \A i \in 1..Len(fmtOut.v) : ansiRegex(fmtOut.v, i) = 0
    /\ stripAnsi(fmtOut.v) = fmtOut.v

\* ---- C21: base64-decoding the raw serialization of the record produced
\* from a chunk gives the chunk's bytes, for a fresh record and for the
\* records getSessionHistory returns (the latest chunks, oldest first).
C21_RawRoundTrip ==
  fmtOut.op \in {"serializeForTransmission", "getSessionHistory"} =>
    /\ Len(fmtOut.v) <= Len(fmtIn)
    /\ \A i \in 1..Len(fmtOut.v) :
         fromBase64(fmtOut.v[i]) = fmtIn[Len(fmtIn) - Len(fmtOut.v) + i]

C21_Witness ==
  /\ fmtOut.op = "getSessionHistory"
  /\ Len(fmtOut.v) = 1
  /\ Len(records) = historyLimit
  /\ Len(fmtIn) = historyLimit
  /\ fmtIn[Len(fmtIn)] = <<27, 255>>
  /\ fmtOut.v[1] = <<"G", "/", "8", "=">>

\* ---- C22: a session's input history changes only by the append of the
\* input of a sendInput whose write has just succeeded, every successful
\* sendInput appends, and a sendInput that fails leaves every session (input
\* history, status, messages handed to observers) as it was.
C22_InputRecorded ==
  [][LET settled == last' # last /\ last'.op = "sendInput"
     IN /\ \A id \in DOMAIN sessions \cap DOMAIN sessions' :
             /\ sessions'[id].inputHistory # sessions[id].inputHistory
                  => /\ settled /\ last'.ok /\ last'.id = id
                     /\ \E c \in pend \ pend' :
                          /\ c.k = "write" /\ c.id = id /\ c.n = last'.n
                          /\ sessions'[id].inputHistory
                               = Append(sessions[id].inputHistory, c.input)
             /\ settled /\ last'.ok /\ last'.id = id
                  => Len(sessions'[id].inputHistory) = Len(sessions[id].inputHistory) + 1
        /\ settled /\ ~last'.ok => sessions' = sessions
    ]_vars

C22_Witness ==
  \E id \in DOMAIN sessions :
    /\ sessions[id].inputHistory = <<"x", "y">>
    /\ last.op = "sendInput" /\ last.ok
    /\ sessions[id].status = "running"

\* ---- C23: the echo of a successful sendInput issued by client c is handed
\* to every observer attached to the session but c, and never to c; every
\* output notification and every change of a session's status hands an
\* output, status or error message to every attached observer.
EchoDelivered ==
  [][last' # last /\ last'.op = "sendInput" /\ last'.ok
       => \A c \in pend \ pend' :
            c.k = "write" /\ c.n = last'.n /\ c.id \in DOMAIN sessions
              => LET to == sessions[c.id].remoteConnections \ c.clientId
                 IN IF to # {}
                    THEN /\ sessions'[c.id].lastMsg # sessions[c.id].lastMsg
                         /\ sessions'[c.id].lastMsg.type = "input"
                         /\ sessions'[c.id].lastMsg.to = to
                    ELSE sessions'[c.id].lastMsg = sessions[c.id].lastMsg]_vars

OutputDelivered ==
  [][\A id \in DOMAIN sessions \cap DOMAIN sessions' :
       sessions'[id].outputHistory # sessions[id].outputHistory
         /\ sessions[id].remoteConnections # {}
         => /\ sessions'[id].lastMsg # sessions[id].lastMsg
            /\ sessions'[id].lastMsg.type = "output"
            /\ sessions'[id].lastMsg.to = sessions[id].remoteConnections]_vars

StatusDelivered ==
  [][\A id \in DOMAIN sessions \cap DOMAIN sessions' :
       sessions'[id].status # sessions[id].status
         /\ sessions[id].remoteConnections # {}
         => /\ sessions'[id].lastMsg # sessions[id].lastMsg
            /\ sessions'[id].lastMsg.type \in {"status", "error"}
            /\ sessions'[id].lastMsg.to = sessions[id].remoteConnections]_vars

C23_FanOut == EchoDelivered /\ OutputDelivered /\ StatusDelivered

\* ---- C24: a pause or resume that is refused (the status is not running,
\* respectively not paused) changes no status of a session or of a managed
\* process, and when pauseSession / resumeSession succeeds the session and
\* its managed process are both paused / both running.
StatusOfAll(ss, os) ==
  <<[id \in DOMAIN ss |-> ss[id].status], [h \in DOMAIN os |-> os[h].status]>>

C24_PauseResume ==
  [][last' # last =>
       /\ last'.op \in {"pauseSession", "resumeSession", "pause", "resume"} /\ ~last'.ok
            => StatusOfAll(sessions', objs') = StatusOfAll(sessions, objs)
       /\ \A id \in Ids :
            /\ last' = Result("pauseSession", id, TRUE)
                 => /\ id \in DOMAIN sessions' /\ sessions'[id].status = "paused"
                    /\ id \in DOMAIN processes' /\ objs'[processes'[id]].status = "paused"
            /\ last' = Result("resumeSession", id, TRUE)
                 => /\ id \in DOMAIN sessions' /\ sessions'[id].status = "running"
                    /\ id \in DOMAIN processes' /\ objs'[processes'[id]].status = "running"
    ]_vars

\* ---- C25: no process is spawned for a session whose status is not idle, a
\* startSession refused for that reason changes no session, a session that
\* has ended is never marked running again, and so at most one process is
\* ever spawned for a session, whatever the interleaving of startSession
\* calls and of createSession's own start.
SpawnedFor(os, id) == {h \in DOMAIN os : os[h].id = id}

C26_SpawnFailure ==
  [][\A h \in DOMAIN objs :
       objs[h].wfs = "pending" /\ objs'[h].wfs = "settled" /\ objs'[h].status # "running"
         => /\ objs[h].id \notin DOMAIN processes'
            /\ Cardinality(DOMAIN processes') < Cardinality(DOMAIN processes)
            /\ (spawnSync(objs[h].id, TRUE).ok)'
            /\ objs[h].id \in DOMAIN sessions' => sessions'[objs[h].id].status = "error"
            /\ last' = Result("waitForSpawn", objs[h].id, FALSE)]_vars

C26_Witness ==
  \E h \in DOMAIN objs :
    /\ objs[h].os = "spawning" /\ objs[h].status = "error" /\ objs[h].wfs = "settled"
    /\ objs[h].id \notin DOMAIN processes
    /\ objs[h].id \in DOMAIN sessions /\ sessions[objs[h].id].status = "error"
    /\ last = Result("waitForSpawn", objs[h].id, FALSE)

\* ---- C27: while the 5 s timer armed by a successful terminateSession is
\* pending, the session it is to remove has status terminated; an output
\* notification of its process in that window ends up last in its history;
\* and when the timer fires the session is gone from the map.
Awaited == {t.id : t \in {u \in timers : u.k = "cleanup"}}
Emitting == {objs[h].id : h \in {g \in DOMAIN objs : objs[g].os \in {"alive", "dead"}}}

C27_DeferredCleanup ==
  /\ [](\A id \in Awaited \cap DOMAIN sessions : sessions[id].status = "terminated")
  /\ [][/\ \A id \in Awaited \cap DOMAIN sessions :
             nOut' = nOut + 1 /\ Emitting = {id}
               => /\ id \in DOMAIN sessions'
                  /\ sessions'[id].outputHistory # <<>>
                  /\ sessions'[id].outputHistory[Len(sessions'[id].outputHistory)] = nOut'
        /\ \A id \in Awaited \ Awaited' : id \notin DOMAIN sessions']_vars

\* ---- C28: a managed process whose child was launched (it has a pid) has
\* status terminated only after the child's 'exit' event, and the session of
\* such a process has status terminated only after that event.
Exited(h) == objs[h].os \in {"dead", "closed"}

C28_TerminatedAfterExit ==
  \A h \in DOMAIN objs :
    objs[h].pid /\ ~Exited(h)
      => /\ objs[h].status # "terminated"
         /\ objs[h].id \in DOMAIN sessions => sessions[objs[h].id].status # "terminated"

\* ---- C29: at the step that completes shutdown, every session that was in
\* the map when shutdown was called is terminated or gone and no managed
\* process has status running or paused; once the interval is cleared the
\* sweep does not run.
ExistedAtShutdown ==
  UNION ({m.existed : m \in {n \in {micro[i] : i \in DOMAIN micro} : n.k = "killAll"}}
         \cup {c.existed : c \in {d \in pend : d.k = "killWait" /\ d.owner = "shutdown"}})

C29_Shutdown ==
  /\ [][last' # last /\ last' = Result("shutdown", 0, TRUE)
          => /\ \A id \in ExistedAtShutdown :
                  id \in DOMAIN sessions' => sessions'[id].status = "terminated"
             /\ \A h \in DOMAIN objs' : objs'[h].status \notin {"running", "paused"}]_vars
  /\ [][~sessionCleanupInterval => lastSweep' = lastSweep]_vars

\* ---- C30: a session that has status error is eventually no longer in the
\* session map.
C30_ErrorSessionsRemoved ==
  \A id \in Ids :
    (id \in DOMAIN sessions /\ sessions[id].status = "error") ~> (id \notin DOMAIN sessions)

\* ---- C31: every line reported as completed, by processRealTimeStream or
\* by the line timer, has no whitespace at either end, no bell character, no
\* two whitespace characters in a row, and processSingleLine leaves it as it is.
FullyNormalized(line) ==
  /\ line # <<>> => line[1] \notin Whitespace /\ line[Len(line)] \notin Whitespace
  /\ \A i \in 1..Len(line) : line[i] # "BEL"
  /\ \A i \in 1..(Len(line) - 1) : ~(line[i] \in Whitespace /\ line[i + 1] \in Whitespace)
  /\ processSingleLine(line) = line

C31_LinesNormalized ==
  \A key \in StreamKeys :
    /\ \A i \in 1..Len(reported[key]) : FullyNormalized(reported[key][i])
    /\ \A i \in 1..Len(forced[key]) : FullyNormalized(forced[key][i])

\* ---- C32: the pending content of a channel is never longer than
\* maxLineLength, and a processRealTimeStream call whose last segment is
\* longer reports that segment, normalized, as its last completed line and
\* leaves the pending content empty.
lastSegment(existingLine, text) ==
  LET combinedText == IF hasCarriageReturn(text)
                      THEN handleCarriageReturn(existingLine, text)
                      ELSE existingLine \o text
      lines == split(combinedText, "LF")
  IN lines[Len(lines)]

C32_PendingBounded ==
  /\ [](\A key \in StreamKeys : Len(pending(key)) <= maxLineLength)
  /\ [][\A key \in StreamKeys :
          Len(chunks'[key]) = Len(chunks[key]) + 1
            => LET lastLine == lastSegment(pending(key),
                                           toStringUtf8(chunks'[key][Len(chunks'[key])]))
               IN Len(lastLine) > maxLineLength
                    => /\ Len(reported'[key]) > Len(reported[key])
                       /\ reported'[key][Len(reported'[key])] = processSingleLine(lastLine)
                       /\ lineBuffers'[key] = <<>>
                       /\ key \notin lineTimeouts']_vars

C32_Witness ==
  \E key \in StreamKeys :
    /\ cut[key]
    /\ Len(chunks[key]) = 2
    /\ Len(concat(chunks[key])) = maxLineLength + 1
    /\ Len(reported[key]) = 1 /\ Len(reported[key][1]) = maxLineLength + 1
    /\ pending(key) = <<>>

\* C33: at most one line timer is live per (session, channel), every pending
\* content has its timer, and when the timer fires on non-empty pending
\* content that content, normalized, is added to the completed lines reported
\* to the consumer, the pending buffer becomes empty and no timer stays armed.
TimerFired(key) ==
  /\ key \in lineTimeouts
  /\ key \notin lineTimeouts'
  /\ chunks'[key] = chunks[key]
C33_TimerCompletes ==
  /\ [](\A key \in StreamKeys : pending(key) # <<>> => key \in lineTimeouts)
  /\ [][\A key \in StreamKeys :
          TimerFired(key) /\ pending(key) # <<>>
            => /\ reported'[key] = Append(reported[key], processSingleLine(pending(key)))
               /\ lineBuffers'[key] = <<>>
               /\ key \notin lineTimeouts']_vars

\* C34: after every processChunk call the raw buffer of a (session, channel)
\* holds at most maxBufferSize bytes, and what it holds is a suffix of the
\* bytes accumulated for that channel (the buffer before the call followed by
\* the chunk): the most recent bytes, in order.
isSuffix(s, t) == Len(s) <= Len(t) /\ SubSeq(t, Len(t) - Len(s) + 1, Len(t)) = s
C34_RawBufferCapped ==
  /\ [](\A key \in StreamKeys : Len(rawBuffer(key)) <= maxBufferSize)
  /\ [][\A key \in StreamKeys :
          Len(chunks'[key]) = Len(chunks[key]) + 1
            => isSuffix(rawBuffer(key)',
                        rawBuffer(key) \o chunks'[key][Len(chunks'[key])])]_vars

\* C35: every chunk the supervisor delivers for a live session is processed
\* in arrival order (its record is appended after the records of the chunks
\* received before it) and is given a sequence number greater than that of
\* every earlier chunk: the sequence counter advances for it.
C35_OrderedAndNumbered ==
  [][\A h \in Handles :
       (OutputEvent(h) /\ objs[h].id \in DOMAIN sessions)
         => /\ LET new == sessions'[objs[h].id].outputHistory
               IN /\ new # <<>> /\ new[Len(new)] = nOut + 1
                  /\ \A i \in 1..(Len(new) - 1) : new[i] < new[i + 1]
            /\ sequenceCounter' > sequenceCounter]_vars

\* C36: as long as no line timer has fired on a channel, the completed lines
\* reported and the pending content are those that one single chunk holding
\* all the bytes delivered so far would have produced, however the bytes were
\* split into chunks.
C36_BoundaryIndependent ==
  \A key \in StreamKeys :
    (chunks[key] # <<>> /\ forced[key] = <<>>)
      => LET whole == processRealTimeStream(<<>>, concat(chunks[key]))
         IN /\ reported[key] = whole.completeLines
            /\ pending(key) = whole.lineBuffer

\* C37: when a createSession call fails (the cap is reached, or its automatic
\* start fails), the session it was creating is not in the session map: the
\* map holds the sessions it held before the call.
C37_CreateAtomic ==
  [][(last' # last /\ ~last'.ok) => last'.id \notin DOMAIN sessions']_vars

\* C38: an entry leaves the process map only on behalf of the process it
\* describes: that process has closed (the delayed removal), its own spawn
\* has just failed, or cleanup() found it terminated or in error.
C38_OwnEntryOnly ==
  [][\A id \in DOMAIN processes :
       id \notin DOMAIN processes'
         => LET h == processes[id]
            IN \/ objs[h].os \in {"closed", "failedClosed"}
               \/ objs[h].wfs = "pending" /\ objs'[h].wfs = "settled" /\ objs'[h].status = "error"
               \/ PmCleanup /\ objs[h].status \in {"terminated", "error"}]_vars

\* C39: the raw buffer, the pending content and the timer of a (session,
\* channel) are left as they are by a chunk processed or a line timer firing
\* for any other (session, channel), and by clearSession or
\* flushPendingLines for any other session.
Untouched(key) ==
  /\ rawBuffer(key)' = rawBuffer(key)
  /\ pending(key)' = pending(key)
  /\ (key \in lineTimeouts') = (key \in lineTimeouts)
C39_Isolated ==
  [][\A key \in StreamKeys :
       /\ \A other \in StreamKeys \ {key} :
            (Len(chunks'[other]) = Len(chunks[other]) + 1 \/ LineTimeout(other))
              => Untouched(key)
       /\ \A sessionId \in StreamSessions \ {key[1]} :
            (ClearSession(sessionId) \/ FlushPendingLines(sessionId))
              => Untouched(key)]_vars

\* Session 1 still has pending content and its timer on stdout after session
\* 2, which had received a chunk on stdout that completed no line, was cleared.
C39_Witness ==
  /\ pending(<<1, "stdout">>) # <<>> /\ <<1, "stdout">> \in lineTimeouts
  /\ chunks[<<2, "stdout">>] # <<>>
  /\ reported[<<2, "stdout">>] = <<>> /\ forced[<<2, "stdout">>] = <<>>
  /\ <<2, "stdout">> \notin DOMAIN buffers \cup DOMAIN lineBuffers

\* C40: in the html conversion a CSI sequence whose final byte is not 'm' is
\* removed without any effect: the result is the one obtained when only the
\* sequences ending in 'm' reach the loop over the parameters, so that no
\* other sequence opens or closes a style scope.
RECURSIVE sgrOnlyFrom(_, _, _)
sgrOnlyFrom(s, i, st) ==
  IF i > Len(s) THEN st
  ELSE LET e == ansiRegex(s, i)
       IN IF e > 0
          THEN sgrOnlyFrom(s, e + 1,
                           IF s[e] = "m"
                           THEN applyParams(st, extractParams(SubSeq(s, i, e)))
                           ELSE st)
          ELSE sgrOnlyFrom(s, i + 1, [st EXCEPT !.result = Append(@, s[i])])
C40_OnlySgrStyles ==
  fmtOut.op = "ansiToHtml"
    => LET st == sgrOnlyFrom(fmtIn, 1, [result |-> <<>>, openTags |-> <<>>,
                                        currentStyles |-> noStyles])
       IN fmtOut.v = escapeHtml(st.result \o closeAll(st.openTags))

====
